---- MODULE Spec2Model ----
(***************************************************************************)
(* The documentation pipeline of dax-orchestrator:                         *)
(* AgentOrchestrator.orchestrateWithSharedClient, the withRetry helper,    *)
(* the admission limiter of the fan-out stage set and the stage agents     *)
(* (classifier, glossary, architecture, measure analysis, synthesis,       *)
(* polish), as one asynchronous state machine.  Every external             *)
(* text-generation call is answered by the environment with success or     *)
(* failure; every promise continuation of the code is one action.          *)
(* Confidences are integers in units of 1/10000 (10000 is 1.0).            *)
(***************************************************************************)
EXTENDS Integers, Sequences, FiniteSets, TLC

\* ---------------------------------------------------------------- bounds
MaxMeasures == 2
MaxGen == 3
MaxColumns == 2
MaxNames == 3
MaxTokens == 3

\* ------------------------------------------------------ program constants
Tries == 3
Concurrency == 3
DefaultMaxMeasures == 999
FullConfidence == 10000
ClassifierFallbackConfidence == 3000
DaxConfidence == 9600
SynthesisConfidence == 9400
PolishCeiling == 9800
DefaultClaimedConfidence == 9000

Min2(a, b) == IF a <= b THEN a ELSE b

\* Number(x) of a value that is not numeric ("high", {}): NaN, kept apart
\* from every confidence by a value no arithmetic of the model produces.
NaN == 99999999

\* Math.min: NaN when an argument is NaN, the smaller argument otherwise.
MathMin(a, b) == IF a = NaN \/ b = NaN THEN NaN ELSE Min2(a, b)

Stages == {"domain", "glossary", "arch", "dax", "synth", "polish"}
Parallel == {"glossary", "arch", "dax"}
Sequential == {"domain", "synth", "polish"}
SingleCall == Stages \ {"dax"}

\* One call id per single-call stage, one per analysed measure for "dax".
CallIds == {<<s, 0>> : s \in SingleCall} \cup {<<"dax", i>> : i \in 1..MaxMeasures}

\* Values of AgentContext.maxMeasures (the optional hint for the analyzer).
MaxMeasuresHints == {0, 1, DefaultMaxMeasures}

\* Number(parsed.confidence ?? 0.9) of a parsed response (in 1/10000): the
\* default when the response states none, values in range, an over-claimed
\* value, a negative value, or NaN for a value that is not numeric.
AnyClaimedConfidences ==
    {DefaultClaimedConfidence, 0, 3000, 9600, 9700, 9800, 10000, 12000, -5000, NaN}

\* The claimed confidences the responses of a pipeline run draw from.
ClaimedConfidences == {DefaultClaimedConfidence, 12000}

\* Answers of the text-generation service to a classifier, glossary or
\* architecture call: makeRequest resolves with success false, with text
\* holding no JSON object, or with a JSON object claiming a confidence.
ResponsesClaiming(cs) ==
    {[ok |-> FALSE, parsed |-> FALSE, conf |-> 0],
     [ok |-> TRUE, parsed |-> FALSE, conf |-> 0]}
        \cup {[ok |-> TRUE, parsed |-> TRUE, conf |-> c] : c \in cs}

Responses == ResponsesClaiming(ClaimedConfidences)

\* What the synthesis call may return as text: not JSON at all, the JSON
\* value null, an object without a measures array, or an object whose
\* measures array has k entries.
GenOutputs ==
    {[shape |-> sh, k |-> 0] : sh \in {"unparseable", "null", "missing"}}
        \cup {[shape |-> "array", k |-> k] : k \in 0..MaxGen}

SynthResponses ==
    {[ok |-> FALSE, out |-> [shape |-> "unparseable", k |-> 0]]}
        \cup {[ok |-> TRUE, out |-> o] : o \in GenOutputs}

\* Readability scores of estimateReadability, in percent (clamped 0.7..0.95).
ReadabilityScores == {70, 95}

PolishResponses ==
    {[ok |-> FALSE, readability |-> 70]}
        \cup {[ok |-> TRUE, readability |-> r] : r \in ReadabilityScores}

VARIABLES
    measures,      \* number of parsed measures in the caller's context
    maxMeasures,   \* context.maxMeasures
    pc,            \* position of orchestrateWithSharedClient
    task,          \* per stage: the withRetry loop wrapped around the agent
    calls,         \* external calls: "none" | "pending" | "ok" | "fail"
    limitActive,   \* limiter: tasks admitted and not yet settled
    limitQueue,    \* limiter: tasks waiting for admission
    result,        \* per stage: the AgentResult the orchestrator holds
    merged,        \* stages whose result has been handed downstream
    report,        \* measures of the final report, or NoReport
    error,         \* stage whose error reached the orchestrator's caller
    anyCallOk,     \* history: some external call has succeeded
    callsIssued,   \* history: number of external calls issued per stage
    overall,       \* metadata.overallConfidence as the fraction sum / w
    callerDomain,  \* context.domain of the caller's context
    enrichedContext, \* { ...context, ...extractDomainContext(domainResult) }
    polishContext, \* { ...enrichedContext, rawReport, stats, ... }
    fnName,        \* the pure function under study, "none" in a pipeline run
    fnIn,          \* its argument
    fnOut,         \* its value, once applied
    logQueue,      \* Logger.logQueue: entries waiting for a file write
    isWriting,     \* Logger.isWriting
    entries,       \* processLogQueue: the rest of the batch it copied
    logFile,       \* the lines of the log file, oldest first
    flushState,    \* position of flush(): "idle" | "waiting" | "returned"
    logCalls,      \* history: number of log calls made
    accepted,      \* history: entries pushed on the queue
    writeFailed,   \* history: some appendFile was rejected
    callerDone     \* the caller makes no further log call

vars == <<measures, maxMeasures, pc, task, calls, limitActive, limitQueue,
          result, merged, report, error, anyCallOk, callsIssued, overall,
          callerDomain, enrichedContext, polishContext, fnName, fnIn, fnOut,
          logQueue, isWriting, entries, logFile, flushState, logCalls,
          accepted, writeFailed, callerDone>>

logVars == <<logQueue, isWriting, entries, logFile, flushState, logCalls,
             accepted, writeFailed, callerDone>>

\* The logger after construction: nothing queued, no write in progress.
LoggerConstructed ==
    /\ logQueue = <<>>
    /\ isWriting = FALSE
    /\ entries = <<>>
    /\ logFile = <<>>
    /\ flushState = "idle"
    /\ logCalls = 0
    /\ accepted = {}
    /\ writeFailed = FALSE
    /\ callerDone = FALSE

\* A context object not built yet.
NoContext == [made |-> FALSE]
\* context.domain is undefined: the parsed context carries no domain.
NoDomain == "undefined"

NotApplied == [applied |-> FALSE]
Applied(v) == [applied |-> TRUE, value |-> v]

NoReport == <<"none">>
NoResult == [kind |-> "none", origin |-> "none", conf |-> 0, agentType |-> "",
             measures |-> <<>>]
\* withRetry before its first call: i = 0, no invocation, lastErr undefined.
NoError == -1
IdleTask == [st |-> "idle", i |-> 0, n |-> 0, code |-> NoError]

\* ------------------------------------------------------------- withRetry
IsTransient(code) == code \in {429, 500, 502, 503, 504}

\* retry.ts line 7: the condition under which the loop sleeps (a timer of
\* 400 * (i + 1)^2 ms) and continues.
RetryDecision(code, i) == IsTransient(code) \/ i < Tries - 1

\* Errors the agents throw are plain Error objects: no status, no code.
PlainErrorCode == 0

\* ------------------------------------------------- state transformers
\* The part of the state the stage machinery rewrites, as one record.
W == [task |-> task, calls |-> calls, active |-> limitActive,
      queue |-> limitQueue, result |-> result, issued |-> callsIssued]

Apply(w) ==
    /\ task' = w.task
    /\ calls' = w.calls
    /\ limitActive' = w.active
    /\ limitQueue' = w.queue
    /\ result' = w.result
    /\ callsIssued' = w.issued

\* DAXAnalyzerAgent.analyze: the measures it analyses.
DaxCount == Min2(measures, maxMeasures)

\* The catch block of withRetry after attempt i of stage s threw `code`.
Catch(w, s, code) ==
    [w EXCEPT !.task[s].code = code,
              !.task[s].st = IF RetryDecision(code, w.task[s].i)
                             THEN "sleeping" ELSE "rejected"]

\* withRetry calls fn(): the agent runs up to its first await.  Every
\* single-call agent issues its one call; the analyzer issues one call per
\* measure, all at once, or throws when it has no measure to analyse.
Invoke(w, s) ==
    LET w1 == [w EXCEPT !.task[s].n = @ + 1] IN
    IF s = "dax"
    THEN IF DaxCount = 0
         THEN Catch(w1, s, PlainErrorCode)
         ELSE [w1 EXCEPT !.task[s].st = "calling",
                         !.issued[s] = @ + DaxCount,
                         !.calls = [c \in CallIds |->
                                      IF c[1] = "dax" /\ c[2] <= DaxCount
                                      THEN "pending" ELSE w.calls[c]]]
    ELSE [w1 EXCEPT !.task[s].st = "calling",
                    !.issued[s] = @ + 1,
                    !.calls[<<s, 0>>] = "pending"]

Fulfil(w, s, r) == [w EXCEPT !.task[s].st = "fulfilled", !.result[s] = r]

IsSettled(w, s) == w.task[s].st \in {"fulfilled", "rejected"}

\* The limiter: limit(fn) runs fn at once while fewer than Concurrency
\* tasks are active, and queues it otherwise.
Submit(w, s) ==
    IF w.active < Concurrency
    THEN Invoke([w EXCEPT !.active = @ + 1], s)
    ELSE [w EXCEPT !.queue = Append(@, s)]

\* The limiter: a settled task frees its slot and the next queued task runs.
Release(w, s) ==
    LET w1 == [w EXCEPT !.active = @ - 1] IN
    IF w1.queue = <<>>
    THEN w1
    ELSE Invoke([w1 EXCEPT !.active = @ + 1, !.queue = Tail(@)], Head(w1.queue))

Finish(w, s) == IF s \in Parallel /\ IsSettled(w, s) THEN Release(w, s) ELSE w

\* --------------------------------------------------------- stage results
AgentType(s) ==
    CASE s = "domain"   -> "Domain Classifier"
      [] s = "glossary" -> "Business Glossary & Terminology"
      [] s = "arch"     -> "Data Architecture Intelligence"
      [] s = "dax"      -> "DAX Analyzer & Measure Interpretation"
      [] s = "synth"    -> "Report Synthesis & Orchestration"
      [] s = "polish"   -> "Content Polish, UI & Export Generation"

\* The ceiling each agent applies to the confidence its response claims.
ConfidenceCeiling(s) ==
    CASE s = "domain"   -> 9800
      [] s = "glossary" -> 9700
      [] s = "arch"     -> 9600

\* emptyPayload(context).confidence: what ensureJsonString substitutes
\* for text that holds no JSON object.
EmptyPayloadConfidence(s) ==
    CASE s = "domain"   -> 8000
      [] s = "glossary" -> 8500
      [] s = "arch"     -> 8500

\* Number(parsed.confidence ?? 0.9) after ensureJsonString and safeParse.
ParsedConfidence(s, r) == IF r.parsed THEN r.conf ELSE EmptyPayloadConfidence(s)

\* The result of a classifier, glossary or architecture agent whose call
\* returned data: createResult(json, ..., Math.min(ceiling, claimed)).
RealResult(s, r) ==
    [kind |-> "real", origin |-> IF r.parsed THEN "generated" ELSE "emptyPayload",
     conf |-> MathMin(ConfidenceCeiling(s), ParsedConfidence(s, r)),
     agentType |-> AgentType(s), measures |-> <<>>]

\* DomainClassifierAgent.analyze, catch path: the result built from
\* fallbackFromContext, returned instead of rethrowing.
ClassifierFallback ==
    [kind |-> "fallback", origin |-> "fallback",
     conf |-> ClassifierFallbackConfidence,
     agentType |-> AgentType("domain"), measures |-> <<>>]

\* The result the orchestrator substitutes for DAX analysis when the
\* context has no measures.
DaxSkipped ==
    [kind |-> "skipped", origin |-> "skipped", conf |-> FullConfidence,
     agentType |-> AgentType("dax"), measures |-> <<>>]

\* DAXAnalyzerAgent.analyze: every per-measure call has settled (cs their
\* outcomes); a failed call becomes a heuristic stub, and the result has
\* confidence 0.96 whatever the outcomes.
DaxResult(cs) ==
    [kind |-> "real",
     origin |-> IF \A i \in 1..DaxCount : cs[<<"dax", i>>] = "fail"
                THEN "heuristic" ELSE "generated",
     conf |-> DaxConfidence,
     agentType |-> AgentType("dax"), measures |-> [i \in 1..DaxCount |-> i]]

\* AgentOrchestrator.fallback: the stage-specific structure, confidence 0.
Fallback(s) ==
    [kind |-> "fallback", origin |-> "fallback", conf |-> 0,
     agentType |-> CASE s = "glossary" -> "Business Glossary"
                     [] s = "arch"     -> "Data Architecture"
                     [] s = "dax"      -> "DAX Analysis",
     measures |-> <<>>]

\* The measures of the caller's context, by name.
ContextMeasures == [i \in 1..measures |-> i]

\* ReportSynthesisAgent.synthesizeResults line 120 and coerceSynthesis:
\* text that does not parse becomes {measures: []}; a missing or empty
\* measures array is rebuilt from the context; any other array is kept.
CoerceMeasures(out) ==
    IF out.shape = "array" /\ out.k > 0
    THEN [i \in 1..out.k |-> i]
    ELSE ContextMeasures

\* synthesizeResults throws a TypeError on the JSON value null
\* ((obj.measures || []) with obj = null).
SynthesisThrows(out) == out.shape = "null"

SynthesisResult(out) ==
    [kind |-> "real",
     origin |-> IF out.shape = "unparseable" THEN "emptyPayload" ELSE "generated",
     conf |-> SynthesisConfidence,
     agentType |-> AgentType("synth"), measures |-> CoerceMeasures(out)]

\* ContentPolishAgent: normaliseShape, applyPolish and the enrichment
\* merges map over the measures of rawReport, one entry per entry.
PolishMeasures(raw) == [i \in 1..Len(raw) |-> raw[i]]

PolishConfidence(readability) ==
    Min2(PolishCeiling, 8000 + readability * 15 + 90 * 5)

PolishResult(raw, readability) ==
    [kind |-> "real", origin |-> "generated",
     conf |-> PolishConfidence(readability),
     agentType |-> AgentType("polish"), measures |-> PolishMeasures(raw)]

\* The orchestrator's safety patch: an empty measures array of the final
\* payload is filled from the context; a non-empty one is left alone.
SafetyPatch(ms) == IF Len(ms) = 0 THEN ContextMeasures ELSE ms

\* ------------------------------------------------------------- contexts
\* The caller's context object.
CallerContext ==
    [made |-> TRUE, measures |-> measures, maxMeasures |-> maxMeasures,
     domain |-> callerDomain]

\* extractDomainContext: the domain of the classifier's analysis JSON
\* (obj.domain || 'Business Intelligence'): the generated domain, the
\* empty payload's (context.domain || 'Business Intelligence'), or the one
\* fallbackFromContext derives from the table names.
ExtractDomain(dr) ==
    CASE dr.origin = "generated"    -> "Retail Analytics"
      [] dr.origin = "emptyPayload" -> "Business Intelligence"
      [] dr.origin = "fallback"     -> "Analytics Model"
      [] OTHER                      -> "Business Intelligence"

\* Variant: the domain context assigned into the caller's object.
ExtendContextInPlace(ctx, dr) ==
    LET c == [ctx EXCEPT !.domain = ExtractDomain(dr)] IN
    [given |-> c, extended |-> c]

\* { ...context, ...extractDomainContext(domainResult) }: a new object; the
\* object given is left as it was.
ExtendContext(ctx, dr) ==
    [given |-> ctx, extended |-> [ctx EXCEPT !.domain = ExtractDomain(dr)]]

\* The stats and polishContext of STEP 4: a new object extending
\* enrichedContext by rawReport (the parsed synthesis JSON) and stats.
PolishContext(ctx, sr) ==
    [made |-> TRUE, measures |-> ctx.measures, maxMeasures |-> ctx.maxMeasures,
     domain |-> ctx.domain, rawReport |-> sr.measures,
     stats |-> [domain |-> ctx.domain, measures |-> measures]]

\* ------------------------------------------------------------------ Init
RunInit ==
    /\ measures \in 0..MaxMeasures
    /\ maxMeasures \in MaxMeasuresHints
    /\ pc = "start"
    /\ task = [s \in Stages |-> IdleTask]
    /\ calls = [c \in CallIds |-> "none"]
    /\ limitActive = 0
    /\ limitQueue = <<>>
    /\ result = [s \in Stages |-> NoResult]
    /\ merged = {}
    /\ report = NoReport
    /\ error = "none"
    /\ anyCallOk = FALSE
    /\ callsIssued = [s \in Stages |-> 0]
    /\ overall = [sum |-> 0, w |-> 0]
    /\ callerDomain = NoDomain
    /\ enrichedContext = NoContext
    /\ polishContext = NoContext

Init ==
    /\ RunInit
    /\ LoggerConstructed
    /\ fnName = "none"
    /\ fnIn = NotApplied
    /\ fnOut = NotApplied

\* --------------------------------------------------------------- actions
\* STEP 1: withRetry(() => agent1.analyze(context, ...)) is called.
StartRun ==
    /\ pc = "start"
    /\ pc' = "classify"
    /\ Apply(Invoke(W, "domain"))
    /\ UNCHANGED <<logVars, fnName, fnIn, fnOut, callerDomain, enrichedContext,
                   polishContext, overall, measures, maxMeasures, merged,
                   report, error, anyCallOk>>

\* The classifier's call is answered.  A failed call is caught inside
\* analyze and answered with the fallback result: analyze never rejects.
RespondDomain(r) ==
    /\ calls[<<"domain", 0>>] = "pending"
    /\ LET w1 == [W EXCEPT !.calls[<<"domain", 0>>] = "none"] IN
       Apply(Fulfil(w1, "domain",
                    IF r.ok THEN RealResult("domain", r) ELSE ClassifierFallback))
    /\ anyCallOk' = (anyCallOk \/ r.ok)
    /\ UNCHANGED <<logVars, fnName, fnIn, fnOut, callerDomain, enrichedContext,
                   polishContext, overall, measures, maxMeasures, pc, merged,
                   report, error>>

\* The glossary or architecture call is answered: the agent returns its
\* result, or throws a plain Error that withRetry catches.
RespondParallel(s, r) ==
    /\ s \in {"glossary", "arch"}
    /\ calls[<<s, 0>>] = "pending"
    /\ LET w1 == [W EXCEPT !.calls[<<s, 0>>] = "none"] IN
       Apply(Finish(IF r.ok THEN Fulfil(w1, s, RealResult(s, r))
                            ELSE Catch(w1, s, PlainErrorCode), s))
    /\ anyCallOk' = (anyCallOk \/ r.ok)
    /\ UNCHANGED <<logVars, fnName, fnIn, fnOut, callerDomain, enrichedContext,
                   polishContext, overall, measures, maxMeasures, pc, merged,
                   report, error>>

\* One per-measure call of the analyzer is answered.  When it was the last
\* one outstanding, Promise.allSettled resolves and analyze returns.
RespondDax(i, ok) ==
    /\ <<"dax", i>> \in CallIds
    /\ calls[<<"dax", i>>] = "pending"
    /\ LET w1 == [W EXCEPT !.calls[<<"dax", i>>] = IF ok THEN "ok" ELSE "fail"]
           last == \A c \in CallIds : c[1] = "dax" => w1.calls[c] # "pending"
           w2 == [w1 EXCEPT !.calls = [c \in CallIds |->
                                         IF c[1] = "dax" THEN "none" ELSE w1.calls[c]]]
       IN Apply(IF last THEN Finish(Fulfil(w2, "dax", DaxResult(w1.calls)), "dax") ELSE w1)
    /\ anyCallOk' = (anyCallOk \/ ok)
    /\ UNCHANGED <<logVars, fnName, fnIn, fnOut, callerDomain, enrichedContext,
                   polishContext, overall, measures, maxMeasures, pc, merged,
                   report, error>>

\* The synthesis call is answered.
RespondSynth(r) ==
    /\ calls[<<"synth", 0>>] = "pending"
    /\ LET w1 == [W EXCEPT !.calls[<<"synth", 0>>] = "none"] IN
       Apply(IF r.ok /\ ~SynthesisThrows(r.out)
             THEN Fulfil(w1, "synth", SynthesisResult(r.out))
             ELSE Catch(w1, "synth", PlainErrorCode))
    /\ anyCallOk' = (anyCallOk \/ r.ok)
    /\ UNCHANGED <<logVars, fnName, fnIn, fnOut, callerDomain, enrichedContext,
                   polishContext, overall, measures, maxMeasures, pc, merged,
                   report, error>>

\* The polish call is answered.
RespondPolish(r) ==
    /\ calls[<<"polish", 0>>] = "pending"
    /\ LET w1 == [W EXCEPT !.calls[<<"polish", 0>>] = "none"] IN
       Apply(IF r.ok
             THEN Fulfil(w1, "polish",
                         PolishResult(polishContext.rawReport, r.readability))
             ELSE Catch(w1, "polish", PlainErrorCode))
    /\ anyCallOk' = (anyCallOk \/ r.ok)
    /\ UNCHANGED <<logVars, fnName, fnIn, fnOut, callerDomain, enrichedContext,
                   polishContext, overall, measures, maxMeasures, pc, merged,
                   report, error>>

\* The backoff timer of withRetry fires: i++, then either the next attempt
\* or, with the attempts used up, throw lastErr.
WakeRetry(s) ==
    /\ task[s].st = "sleeping"
    /\ LET w1 == [W EXCEPT !.task[s].i = @ + 1] IN
       Apply(Finish(IF w1.task[s].i < Tries
                    THEN Invoke(w1, s)
                    ELSE [w1 EXCEPT !.task[s].st = "rejected"], s))
    /\ UNCHANGED <<logVars, fnName, fnIn, fnOut, callerDomain, enrichedContext,
                   polishContext, overall, measures, maxMeasures, pc, merged,
                   report, error, anyCallOk>>

\* ------------------------------------------------- orchestrator steps
\* Variant: the orchestrator goes on once classification was requested,
\* without awaiting it.
ClassificationRequested == task["domain"].st # "idle"

\* `await withRetry(agent1.analyze)` has returned its value.
ClassificationReturned == task["domain"].st = "fulfilled"

\* Variant: the comparison off by one (>= 0), so the analyzer always runs.
HasMeasuresOffByOne == measures >= 0

\* hasMeasures = (enrichedContext.measures?.length ?? 0) > 0
HasMeasures == measures > 0

\* STEP 2: the classifier's result is merged into enrichedContext, the
\* limiter is created and the three parallel promises are built: DAX first
\* (through the limiter, or already resolved when there are no measures),
\* then glossary and architecture.
AfterClassify ==
    /\ pc = "classify"
    /\ ClassificationReturned
    /\ pc' = "fanout"
    /\ merged' = merged \cup {"domain"}
    /\ LET w0 == IF HasMeasures
                 THEN Submit(W, "dax")
                 ELSE Fulfil(W, "dax", DaxSkipped)
       IN Apply(Submit(Submit(w0, "glossary"), "arch"))
    /\ LET e == ExtendContext(CallerContext, result["domain"]) IN
          /\ enrichedContext' = e.extended
          /\ measures' = e.given.measures
          /\ maxMeasures' = e.given.maxMeasures
          /\ callerDomain' = e.given.domain
    /\ UNCHANGED <<logVars, fnName, fnIn, fnOut, polishContext, overall, report, error,
                   anyCallOk>>

\* Variant: a race-style join that resolves with the first settled promise.
AnySettled == \E s \in Parallel : IsSettled(W, s)

\* Promise.allSettled over the three parallel promises has resolved.
AllSettled == \A s \in Parallel : IsSettled(W, s)

\* Variant: the value is read without looking at the settled status.
JoinedUnchecked(s) == result[s]

\* gRes.status === 'fulfilled' ? gRes.value : this.fallback(...)
Joined(s) == IF task[s].st = "fulfilled" THEN result[s] ELSE Fallback(s)

\* STEP 3: the three settled results (or their fallbacks) become the
\* synthesis inputs and withRetry(agent5.synthesizeResults) is called.
AfterFanout ==
    /\ pc = "fanout"
    /\ AllSettled
    /\ pc' = "synth"
    /\ merged' = merged \cup Parallel
    /\ LET w1 == [W EXCEPT !.result = [s \in Stages |->
                                IF s \in Parallel THEN Joined(s) ELSE result[s]]]
       IN Apply(Invoke(w1, "synth"))
    /\ UNCHANGED <<logVars, fnName, fnIn, fnOut, callerDomain, enrichedContext,
                   polishContext, overall, measures, maxMeasures, report,
                   error,
                   anyCallOk>>

\* Variant: the orchestrator goes on when synthesis settled either way.
SynthesisSettled == IsSettled(W, "synth")

\* `await withRetry(agent5.synthesizeResults)` has returned its value.
SynthesisReturned == task["synth"].st = "fulfilled"

\* STEP 4: the synthesis JSON becomes rawReport of polishContext and
\* withRetry(agent6.analyze) is called.
AfterSynth ==
    /\ pc = "synth"
    /\ SynthesisReturned
    /\ pc' = "polish"
    /\ merged' = merged \cup {"synth"}
    /\ Apply(Invoke(W, "polish"))
    /\ polishContext' = PolishContext(enrichedContext, result["synth"])
    /\ UNCHANGED <<logVars, fnName, fnIn, fnOut, callerDomain, enrichedContext,
                   overall, measures, maxMeasures, report, error,
                   anyCallOk>>

\* Variant: the weight decided by the agents' own names only.
WeightByAgentName(r) ==
    IF r.agentType \in {AgentType("dax"), AgentType("synth"), AgentType("polish")}
    THEN 2 ELSE 1

\* calculateOverallConfidence, weight: /DAX|Synthesis|Polish/i tested on
\* agentType.  Of the agentType strings of the program the pattern matches
\* 'DAX Analyzer & Measure Interpretation', 'DAX Analysis' (the fallback),
\* 'Report Synthesis & Orchestration' and 'Content Polish, UI & Export
\* Generation'.
Weight(r) ==
    IF r.agentType \in {"DAX Analyzer & Measure Interpretation", "DAX Analysis",
                        "Report Synthesis & Orchestration",
                        "Content Polish, UI & Export Generation"}
    THEN 2 ELSE 1

\* Number.isFinite(Number(r.confidence))
IsFinite(c) == c # NaN

\* calculateOverallConfidence over [domain, glossary, architecture, dax,
\* synthesis, polish]: sum of confidence * weight and sum of weights over
\* the results whose confidence is finite; the value is sum / w (0 if w = 0).
ResultOrder == <<"domain", "glossary", "arch", "dax", "synth", "polish">>

RECURSIVE ConfidenceLoop(_, _, _)
ConfidenceLoop(rs, k, acc) ==
    IF k > Len(ResultOrder) THEN acc
    ELSE LET r == rs[ResultOrder[k]] IN
         ConfidenceLoop(rs, k + 1,
                        IF IsFinite(r.conf)
                        THEN [sum |-> acc.sum + r.conf * Weight(r),
                              w |-> acc.w + Weight(r)]
                        ELSE acc)

CalculateOverallConfidence(rs) == ConfidenceLoop(rs, 1, [sum |-> 0, w |-> 0])

\* The final payload: contentPolish.analysis, enhanced, safety-patched,
\* returned as finalReport.
FinalMeasures == SafetyPatch(result["polish"].measures)

AfterPolish ==
    /\ pc = "polish"
    /\ task["polish"].st = "fulfilled"
    /\ pc' = "done"
    /\ merged' = merged \cup {"polish"}
    /\ report' = FinalMeasures
    /\ overall' = CalculateOverallConfidence(result)
    /\ UNCHANGED <<logVars, fnName, fnIn, fnOut, callerDomain, enrichedContext,
                   polishContext, measures, maxMeasures, task, calls,
                   limitActive, limitQueue,
                   result, error, anyCallOk, callsIssued>>

\* The position at which the orchestrator awaits a sequential stage.
AwaitedAt(s) ==
    CASE s = "domain" -> "classify"
      [] s = "synth"  -> "synth"
      [] s = "polish" -> "polish"

\* withRetry around a sequential stage threw: nothing catches it, so
\* orchestrateWithSharedClient rejects with that error.
Abort(s) ==
    /\ s \in Sequential
    /\ pc = AwaitedAt(s)
    /\ task[s].st = "rejected"
    /\ pc' = "failed"
    /\ error' = s
    /\ UNCHANGED <<logVars, fnName, fnIn, fnOut, callerDomain, enrichedContext,
                   polishContext, overall, measures, maxMeasures, task, calls,
                   limitActive, limitQueue,
                   result, merged, report, anyCallOk, callsIssued>>

Next ==
    \/ StartRun
    \/ \E r \in Responses : RespondDomain(r)
    \/ \E s \in Parallel, r \in Responses : RespondParallel(s, r)
    \/ \E i \in 1..MaxMeasures, ok \in BOOLEAN : RespondDax(i, ok)
    \/ \E r \in SynthResponses : RespondSynth(r)
    \/ \E r \in PolishResponses : RespondPolish(r)
    \/ \E s \in Stages : WakeRetry(s)
    \/ AfterClassify
    \/ AfterFanout
    \/ AfterSynth
    \/ AfterPolish
    \/ \E s \in Sequential : Abort(s)

Spec == Init /\ [][Next]_vars

\* ------------------------------------------------------------ type check
TypeOK ==
    /\ measures \in 0..MaxMeasures
    /\ maxMeasures \in MaxMeasuresHints
    /\ pc \in {"start", "classify", "fanout", "synth", "polish", "done", "failed"}
    /\ \A s \in Stages :
          /\ task[s].st \in {"idle", "calling", "sleeping", "fulfilled", "rejected"}
          /\ task[s].i \in 0..Tries
          /\ task[s].n \in 0..Tries
    /\ \A c \in CallIds : calls[c] \in {"none", "pending", "ok", "fail"}
    /\ limitActive \in 0..Concurrency
    /\ merged \subseteq Stages
    /\ error \in Stages \cup {"none"}

\* ================================================================ claims

\* External calls in flight (issued and not yet answered).
InFlight == Cardinality({c \in CallIds : calls[c] = "pending"})

\* C1: at every point of a run, for any number of input measures, at most
\* 3 external calls are in flight, counting the calls of the glossary,
\* architecture and measure-analysis stages together.
C1_AtMostThreeInFlight == InFlight <= Concurrency

\* A stage has been started: its withRetry loop has left the idle state.
Started(s) == task[s].n > 0 \/ task[s].st \in {"calling", "sleeping", "rejected"}

\* C2: no parallel stage (glossary, architecture, measure analysis) is
\* started before classification has completed with its real result or its
\* fallback result.
C2_ClassificationBeforeParallel ==
    \A s \in Parallel :
        (Started(s) \/ callsIssued[s] > 0 \/ result[s] # NoResult) =>
            /\ task["domain"].st = "fulfilled"
            /\ result["domain"].kind \in {"real", "fallback"}
            /\ calls[<<"domain", 0>>] = "none"

\* C2 witness: the glossary call is in flight after classification ended
\* with its fallback result.
C2_Witness ==
    /\ calls[<<"glossary", 0>>] = "pending"
    /\ result["domain"].kind = "fallback"

\* C3: synthesis is invoked only after all three parallel stages have
\* settled (fulfilled, or replaced by the fallback), and polish is invoked
\* only after synthesis has returned its result.
C3_FanInOrder ==
    /\ Started("synth") =>
          \A s \in Parallel :
              /\ task[s].st \in {"fulfilled", "rejected"}
              /\ result[s].kind \in {"real", "skipped", "fallback"}
              /\ \A c \in CallIds : c[1] = s => calls[c] = "none"
    /\ Started("polish") =>
          /\ task["synth"].st = "fulfilled"
          /\ result["synth"].kind = "real"
          /\ calls[<<"synth", 0>>] = "none"

\* C3 witness: polish has been invoked in a run whose glossary stage was
\* replaced by the fallback while architecture and analysis succeeded.
C3_Witness ==
    /\ Started("polish")
    /\ result["glossary"].kind = "fallback"
    /\ result["arch"].kind = "real"
    /\ result["dax"].kind = "real"

\* C4: when one of the glossary, architecture or measure-analysis stages
\* fails on every attempt, the other two still run to their own outcome,
\* the failed stage is replaced by its stage-specific fallback structure,
\* and the run never fails because of that stage.
C4_ParallelFailureIsolated ==
    /\ error \notin Parallel
    /\ \A s \in Parallel :
          /\ task[s].st = "rejected" => task[s].n = Tries
          /\ s \in merged =>
                /\ task[s].st \in {"fulfilled", "rejected"}
                /\ task[s].st = "rejected" => result[s] = Fallback(s)
                /\ task[s].st = "fulfilled" =>
                      /\ result[s].kind \in {"real", "skipped"}
                      /\ result[s].agentType = AgentType(s)
    /\ pc = "failed" => task[error].st = "rejected"

\* C4 witness: a completed run in which the architecture stage failed on
\* every attempt and the two other parallel stages succeeded.
C4_Witness ==
    /\ pc = "done"
    /\ task["arch"].st = "rejected"
    /\ result["arch"] = Fallback("arch")
    /\ result["glossary"].kind = "real"
    /\ result["dax"].kind = "real"

\* A sequential stage failed on every attempt it was given: its withRetry
\* loop threw, or (classifier) its call failed inside the stage.
FailedEveryAttempt(s) ==
    \/ task[s].st = "rejected"
    \/ s = "domain" /\ result["domain"].kind = "fallback"

\* The run ended at stage s with its error and without a report.
EndsWithErrorOf(s) ==
    /\ pc \in {AwaitedAt(s), "failed"}
    /\ pc = "failed" => error = s
    /\ report = NoReport
    /\ \A t \in Stages : t # s => task[t].st \notin {"calling", "sleeping"}

\* C5 as stated: if the classification, synthesis or polish stage fails on
\* every retry attempt, the run terminates with that error propagated to
\* the caller and no final report is returned.
C5_RequiredFailureIsFatal ==
    \A s \in Sequential : FailedEveryAttempt(s) => EndsWithErrorOf(s)

\* C5 amended: if the synthesis or polish stage fails on every retry
\* attempt, the run terminates with that error propagated to the caller
\* and no final report is returned; the classification stage never fails:
\* a failed classification call is answered inside the stage by its
\* fallback result and the run goes on.
C5_SynthesisOrPolishFailureIsFatal ==
    /\ \A s \in {"synth", "polish"} :
          task[s].st = "rejected" => task[s].n = Tries /\ EndsWithErrorOf(s)
    /\ task["domain"].st # "rejected"
    /\ error # "domain"
    /\ pc = "failed" =>
          /\ error \in {"synth", "polish"}
          /\ task[error].st = "rejected"
          /\ report = NoReport
          /\ InFlight = 0

\* C5 witness: the run failed with the error of synthesis, after a failed
\* classification call had been answered by the fallback result.
C5_Witness ==
    /\ pc = "failed"
    /\ error = "synth"
    /\ result["domain"].kind = "fallback"

\* The run has ended: the orchestrator returned or rejected.
RunEnded == pc \in {"done", "failed"}

\* C6: if every external call fails, the run still completes and returns a
\* structurally valid report with an entry for every input measure.
C6_OutageStillCompletes ==
    (RunEnded /\ ~anyCallOk) =>
        /\ pc = "done"
        /\ report # NoReport
        /\ \A i \in 1..measures : \E j \in 1..Len(report) : report[j] = i

\* C7: the measures array of the final report of a completed run has
\* exactly N entries, N the number of parsed measures, whatever the
\* generation stages produced.
C7_MeasureCardinality == pc = "done" => Len(report) = measures

\* C8: when the context contains zero measures, the measure-analysis stage
\* issues no external call at any point of the run and its stage result
\* has confidence 1.0.
C8_ZeroMeasuresSkipsAnalysis ==
    measures = 0 =>
        /\ callsIssued["dax"] = 0
        /\ task["dax"].n = 0
        /\ \A c \in CallIds : c[1] = "dax" => calls[c] = "none"
        /\ pc \notin {"start", "classify"} =>
              /\ result["dax"].conf = FullConfidence
              /\ result["dax"].kind = "skipped"

\* C8 witness: a completed run over a context without measures.
C8_Witness == measures = 0 /\ pc = "done" /\ result["dax"].conf = FullConfidence

\* C9: a stage invocation that fails with a non-transient error is not
\* retried: once the last error of a withRetry loop is non-transient the
\* loop has ended by throwing it, and no further attempt is pending.
C9_NonTransientNotRetried ==
    \A s \in Stages :
        (task[s].code # NoError /\ ~IsTransient(task[s].code)) =>
            task[s].st = "rejected"

\* The state of a stage in the per-stage state machine.  A parallel stage
\* whose retry loop threw counts as FallbackUsed (the join substitutes the
\* fallback); a sequential stage whose retry loop threw is Failed.
StageState(s) ==
    IF s \in merged THEN "Merged"
    ELSE CASE task[s].st = "idle" -> "NotStarted"
           [] task[s].st \in {"calling", "sleeping"} -> "Requested"
           [] task[s].st = "fulfilled" ->
                 IF result[s].kind = "fallback" THEN "FallbackUsed" ELSE "Succeeded"
           [] task[s].st = "rejected" ->
                 IF s \in Parallel THEN "FallbackUsed" ELSE "Failed"

\* C10: each stage moves only along NotStarted -> Requested ->
\* {Succeeded | FallbackUsed} -> Merged: a requested stage ends in
\* Succeeded or FallbackUsed and in no other state, its output is merged
\* only after that, and neither state ends the run.
C10_StageStateMachine ==
    /\ \A s \in Stages :
          /\ StageState(s) \in {"NotStarted", "Requested", "Succeeded",
                                 "FallbackUsed", "Merged"}
          /\ s \in merged => task[s].st \in {"fulfilled", "rejected"}
    /\ RunEnded => \A s \in Stages : StageState(s) # "Requested"
    /\ error # "none" =>
          StageState(error) \notin {"Succeeded", "FallbackUsed", "Merged"}

\* The steps the program takes by itself: timers and promise continuations
\* of the event loop.  The answers of the text-generation service are not
\* among them: nothing obliges the service to answer.
ProgramStep ==
    \/ StartRun
    \/ \E s \in Stages : WakeRetry(s)
    \/ AfterClassify
    \/ AfterFanout
    \/ AfterSynth
    \/ AfterPolish
    \/ \E s \in Sequential : Abort(s)

\* The event loop runs every enabled timer and continuation.
FairSpec == Spec /\ WF_vars(ProgramStep)

\* C11: every external call is bounded by its own timeout: a call that the
\* service never answers is ended as a call failure, so no call stays in
\* flight forever and its stage settles.
C11_CallBoundedByTimeout ==
    \A c \in CallIds : (calls[c] = "pending") ~> (calls[c] # "pending")

\* The confidence of a fallback result lies between 0 and 0.3.
FallbackConfidenceCap == 3000

\* C12: whenever a stage's external call fails or its response cannot be
\* parsed, the stage's result is its deterministic fallback payload
\* (fallback structure, empty payload or heuristic stubs) and its
\* confidence lies between 0 and 0.3.
C12_FailureGivesLowConfidenceFallback ==
    \A s \in Stages :
        result[s].origin \in {"fallback", "emptyPayload", "heuristic"} =>
            /\ result[s].conf >= 0
            /\ result[s].conf <= FallbackConfidenceCap

\* ------------------------------------------------------- pure functions
\* The functions of the stages studied by themselves: an argument is drawn,
\* the function is applied to it once, in the context of a run not started.
runVars == <<measures, maxMeasures, pc, task, calls, limitActive, limitQueue,
             result, merged, report, error, anyCallOk, callsIssued, overall,
             callerDomain, enrichedContext, polishContext>>

\* A classifier, glossary or architecture agent builds its result from a
\* response that carries data.
StageResultInputs ==
    {[s |-> s, r |-> r] : s \in {"domain", "glossary", "arch"},
                          r \in {x \in ResponsesClaiming(AnyClaimedConfidences) : x.ok}}

ApplyStageResult ==
    /\ fnName = "stageResult"
    /\ ~fnOut.applied
    /\ fnOut' = Applied(RealResult(fnIn.s, fnIn.r))
    /\ UNCHANGED <<runVars, logVars, fnName, fnIn>>

\* The text of a synthesis response, by the JSON value it holds: no JSON
\* at all, null, a primitive (a number, a string), or an object whose
\* fields are each missing, of the expected type, or a non-empty string
\* where an object or an array is expected.
FieldShapes == {"missing", "array", "string"}

RawSynthesisOutputs ==
    {[top |-> t, overview |-> "missing", measures |-> "missing",
      tables |-> "missing", relationships |-> "missing",
      lintFindings |-> "missing"] : t \in {"unparseable", "null", "primitive"}}
    \cup
    {[top |-> "object", overview |-> o, measures |-> m, tables |-> t,
      relationships |-> r, lintFindings |-> l] :
        o \in {"missing", "object", "string"}, m \in FieldShapes,
        t \in FieldShapes, r \in FieldShapes, l \in FieldShapes}

\* synthesizeResults line 120: JSON.parse(raw), and { measures: [] } when
\* that throws.
ParseRaw(raw) ==
    IF raw.top = "unparseable"
    THEN [raw EXCEPT !.top = "object", !.measures = "array"]
    ELSE raw

\* The glossary merge, (obj.measures || []).forEach(...): a TypeError when
\* obj is null, or when measures is a value without forEach.
MergeThrows(obj) ==
    \/ obj.top = "null"
    \/ obj.top = "object" /\ obj.measures = "string"

\* coerceSynthesis assigns obj.overview and obj.overview.domain: a
\* TypeError (strict mode, as in any class body) when obj or obj.overview
\* is a primitive.
CoerceThrows(obj) ==
    \/ obj.top \in {"null", "primitive"}
    \/ obj.overview = "string"

Threw ==
    [threw |-> TRUE, overview |-> "missing", measures |-> "missing",
     tables |-> "missing", relationships |-> "missing", lintFindings |-> "missing"]

\* coerceSynthesis: overview defaults to {}; tables, relationships and
\* measures are rebuilt from the context unless they are non-empty arrays;
\* lintFindings is kept when truthy, else taken from the analyzer's
\* metadata, else [].
CoerceSynthesis(obj) ==
    IF CoerceThrows(obj) THEN Threw
    ELSE [threw |-> FALSE, overview |-> "object", measures |-> "array",
          tables |-> "array", relationships |-> "array",
          lintFindings |-> IF obj.lintFindings = "string" THEN "string" ELSE "array"]

\* The coercion step of synthesizeResults, from the response text to the
\* coerced object.
CoercionStep(raw) ==
    LET obj == ParseRaw(raw) IN
    IF MergeThrows(obj) THEN Threw ELSE CoerceSynthesis(obj)

ApplyCoercion ==
    /\ fnName = "coerce"
    /\ ~fnOut.applied
    /\ fnOut' = Applied(CoercionStep(fnIn))
    /\ UNCHANGED <<runVars, logVars, fnName, fnIn>>

\* Table names as the parsed columns and the report's tables spell them.
TableNames == {"Sales", "SALES", "sales", "Date", "date"}

\* String.prototype.toLowerCase on the table names.
ToLowerCase(n) ==
    CASE n \in {"Sales", "SALES", "sales"} -> "sales"
      [] n \in {"Date", "date"}            -> "date"

\* context.columns, by the tableName of each parsed column.
ColumnLists == UNION {[1..n -> TableNames] : n \in 0..MaxColumns}

\* The columns value a generation stage states for a table: none
\* (undefined), or a number.
NoColumns == -1
GeneratedColumns == {NoColumns, 0, 1, 3}

ColumnCountInputs ==
    {[columns |-> cs, name |-> n, generated |-> g] :
        cs \in ColumnLists, n \in TableNames, g \in GeneratedColumns}

\* colCounts: the number of parsed columns under each lower-cased
\* tableName; a key is present only when some column has it.
RECURSIVE ColCounts(_, _)
ColCounts(cs, key) ==
    IF cs = <<>> THEN 0
    ELSE (IF ToLowerCase(Head(cs)) = key THEN 1 ELSE 0) + ColCounts(Tail(cs), key)

\* colCounts.get((t.name || '').toLowerCase()) || t.columns || 0, the
\* expression of coerceSynthesis and of the orchestrator's safety patch:
\* an absent or zero count gives way to the table's own columns value.
PatchedColumns(cs, t) ==
    LET c == ColCounts(cs, ToLowerCase(t.name)) IN
    IF c # 0 THEN c
    ELSE IF t.columns \notin {NoColumns, 0} THEN t.columns ELSE 0

\* normaliseShape of the polish stage: Number(t.columns ?? 0).
NormalisedColumns(t) == IF t.columns = NoColumns THEN 0 ELSE t.columns

\* The column count of a generated table on its way to the final report:
\* coerceSynthesis, normaliseShape, safety patch.
ReportedColumns(cs, name, generated) ==
    LET t0 == [name |-> name, columns |-> generated]
        t1 == [t0 EXCEPT !.columns = PatchedColumns(cs, t0)]
        t2 == [t1 EXCEPT !.columns = NormalisedColumns(t1)]
    IN PatchedColumns(cs, t2)

ApplyColumnCount ==
    /\ fnName = "columnCount"
    /\ ~fnOut.applied
    /\ fnOut' = Applied(ReportedColumns(fnIn.columns, fnIn.name, fnIn.generated))
    /\ UNCHANGED <<runVars, logVars, fnName, fnIn>>

\* A count that is undefined (a field or an object that is not there).
NoCount == -1
NoStats == [domain |-> NoDomain, tables |-> NoCount, measures |-> NoCount,
            relationships |-> NoCount]

\* a ?? b on counts and on domains.
OrCount(a, b) == IF a = NoCount THEN b ELSE a
OrDomain(a, b) == IF a = NoDomain THEN b ELSE a

\* The numbers of parsed tables, measures and relationships of a context,
\* the domain of the enriched context, and the overview a synthesis
\* response states (each field absent, or a value of its own).
ModelCounts == 0..MaxMeasures
GeneratedCounts == {NoCount, 7}
GeneratedDomains == {NoDomain, "Healthcare"}
ClassifiedDomains == {"Retail Analytics", "Business Intelligence", "Analytics Model"}

PolishValueInputs ==
    {[domain |-> d, tables |-> t, measures |-> m, relationships |-> r,
      overview |-> [domain |-> gd, tables |-> gt, measures |-> gm,
                    relationships |-> gr]] :
        d \in ClassifiedDomains, t \in ModelCounts, m \in ModelCounts,
        r \in ModelCounts, gd \in GeneratedDomains, gt \in GeneratedCounts,
        gm \in GeneratedCounts, gr \in GeneratedCounts}

\* The stats of STEP 4: enrichedContext.domain ?? context.domain ??
\* 'Business Intelligence', and the lengths of the context's arrays.
FixedStats(in) ==
    [domain |-> OrDomain(in.domain, OrDomain(callerDomain, "Business Intelligence")),
     tables |-> in.tables, measures |-> in.measures,
     relationships |-> in.relationships]

\* normaliseShape, overview: stats.x ?? obj.overview.x ?? default.
NormaliseOverview(stats, ov) ==
    [domain |-> OrDomain(stats.domain, OrDomain(ov.domain, "Business Intelligence")),
     tables |-> OrCount(stats.tables, OrCount(ov.tables, 0)),
     measures |-> OrCount(stats.measures, OrCount(ov.measures, 0)),
     relationships |-> OrCount(stats.relationships, OrCount(ov.relationships, 0))]

\* The second argument analyze gives buildPolishPrompt: a new object with
\* the context's domain and stakeholders and nothing else.
PromptContext(in, stats) ==
    [domain |-> in.domain, stats |-> NoStats, tables |-> NoCount,
     measures |-> NoCount, relationships |-> NoCount]

\* buildPolishPrompt, FIXED_EXEC_VALUES: stats.domain ?? ctx.domain ??
\* 'Power BI Data Model'; stats.n when finite, else ctx.n?.length ?? 0.
BuildPolishPrompt(ctx) ==
    [domain |-> OrDomain(ctx.stats.domain, OrDomain(ctx.domain, "Power BI Data Model")),
     tables |-> OrCount(ctx.stats.tables, OrCount(ctx.tables, 0)),
     measures |-> OrCount(ctx.stats.measures, OrCount(ctx.measures, 0)),
     relationships |-> OrCount(ctx.stats.relationships, OrCount(ctx.relationships, 0))]

\* analyze step 4.5: the overview's domain and counts are kept when set,
\* else taken from the context and stats.
FinalOverview(stats, ov) ==
    [domain |-> OrDomain(ov.domain, stats.domain),
     tables |-> OrCount(ov.tables, stats.tables),
     measures |-> OrCount(ov.measures, stats.measures),
     relationships |-> OrCount(ov.relationships, stats.relationships)]

\* The polish stage on the fixed values: what it is handed, what its
\* request carries and what the report's overview states.
PolishValues(in) ==
    LET stats == FixedStats(in) IN
    [stats |-> stats,
     prompt |-> BuildPolishPrompt(PromptContext(in, stats)),
     overview |-> FinalOverview(stats, NormaliseOverview(stats, in.overview))]

ApplyPolishValues ==
    /\ fnName = "polishValues"
    /\ ~fnOut.applied
    /\ fnOut' = Applied(PolishValues(fnIn))
    /\ UNCHANGED <<runVars, logVars, fnName, fnIn>>

\* ----- measure enrichment, field by field.  A field value is known by
\* its shape and origin: undefined, the empty string, a non-empty string
\* or array of the generation stage, the empty array, a glossary value, a
\* heuristic value.
EnrichedFields == {"purpose", "whenToUse", "successIndicators", "risks"}
GeneratedValues == {"undefined", "", "genText", "genList", "emptyList"}
GlossaryValues == {"undefined", "glossText", "glossList"}

\* heuristicDescribe: purpose and whenToUse are non-empty texts,
\* successIndicators a non-empty list, risks a list that may be empty.
HeuristicValues(f) ==
    CASE f \in {"purpose", "whenToUse"} -> {"heurText"}
      [] f = "successIndicators"        -> {"heurList"}
      [] f = "risks"                    -> {"heurList", "emptyList"}

EnrichmentInputs ==
    {[field |-> f, gen |-> v, meaning |-> bm, entry |-> e, gloss |-> gl, heur |-> h] :
        f \in EnrichedFields, v \in GeneratedValues,
        bm \in {"undefined", "genText"}, e \in BOOLEAN, gl \in GlossaryValues,
        h \in {"heurText", "heurList", "emptyList"}}

\* a || b, a ?? b, Array.isArray(a), and the test
\* Array.isArray(a) && a.length ? a : b.
Truthy(a) == a \notin {"undefined", ""}
Or(a, b) == IF Truthy(a) THEN a ELSE b
Nullish(a, b) == IF a = "undefined" THEN b ELSE a
IsArray(a) == a \in {"genList", "glossList", "heurList", "emptyList"}
ArrayOr(a, b) == IF IsArray(a) /\ a # "emptyList" THEN a ELSE b

\* The glossary's quick-reference value of the field, undefined when the
\* measure has no entry.
GlossOf(in) == IF in.entry THEN in.gloss ELSE "undefined"

\* Array.join(', ') of a glossary list: a text.
Joined2Text(v) == IF v = "glossList" THEN "glossText" ELSE ""

\* enrichMeasures: glossary definition or heuristic, field by field;
\* risks are the heuristic ones.
EnrichValue(in) ==
    CASE in.field \in {"purpose", "whenToUse"} -> Or(GlossOf(in), in.heur)
      [] in.field = "successIndicators" ->
            IF GlossOf(in) \in {"glossText", "glossList"} THEN "glossList" ELSE in.heur
      [] in.field = "risks" -> in.heur

\* synthesizeResults on one field of a generated measure: the glossary
\* merge (lines 132-139), coerceSynthesis (lines 497-511), the enricher
\* merge (lines 164-178).  v is the field's generated value.
SynthField(in, f, v) ==
    LET merged1 ==
            IF ~in.entry \/ f = "risks" THEN v
            ELSE IF f = "successIndicators"
                 THEN Or(v, Joined2Text(in.gloss))
                 ELSE Or(Or(v, in.gloss), "")
        coerced ==
            IF f \in {"successIndicators", "risks"}
            THEN ArrayOr(merged1, in.heur)
            ELSE Or(merged1, in.heur)
    IN IF f \in {"successIndicators", "risks"}
       THEN ArrayOr(coerced, EnrichValue(in))
       ELSE Or(coerced, EnrichValue(in))

\* The synthesis measure as the polish stage reads it: purpose is the
\* generated purpose, untouched by synthesis; businessMeaning is built by
\* the chain above from the generated businessMeaning.
SynthMeasure(in) ==
    [purpose |-> IF in.field = "purpose" THEN in.gen ELSE "undefined",
     businessMeaning |-> IF in.field = "purpose"
                         THEN SynthField(in, "purpose", in.meaning) ELSE "undefined",
     value |-> IF in.field = "purpose" THEN in.gen
               ELSE SynthField(in, in.field, in.gen)]

\* ContentPolishAgent.analyze on the field: normaliseShape (?? '' or the
\* array test), step 4.1 (fill from the enricher), step 4.6 (fill from the
\* synthesis measure and the glossary).
PolishField(in) ==
    LET s == SynthMeasure(in)
        f == in.field
        normalised == IF f = "risks"
                      THEN IF IsArray(s.value) THEN s.value ELSE "emptyList"
                      ELSE Nullish(s.value, "")
        filled == IF f \in {"successIndicators", "risks"}
                  THEN ArrayOr(normalised, EnrichValue(in))
                  ELSE Or(normalised, EnrichValue(in))
    IN CASE f = "purpose" ->
              Or(Or(Or(filled, s.businessMeaning), GlossOf(in)), "")
         [] f = "whenToUse" ->
              Or(Or(Or(filled, s.value), GlossOf(in)), "")
         [] f = "successIndicators" ->
              Or(Or(filled, s.value), Joined2Text(GlossOf(in)))
         [] f = "risks" -> filled

ApplyEnrichment ==
    /\ fnName = "enrich"
    /\ ~fnOut.applied
    /\ fnOut' = Applied(PolishField(fnIn))
    /\ UNCHANGED <<runVars, logVars, fnName, fnIn>>

\* ----- CSVParserAgent.normaliseParsed on measure names and on a
\* relationship record.  A raw record carries the keys the normaliser
\* reads; "undefined" marks a key that is not there.
RawTexts == {"", " Sales ", "Sales", " sales", "Qty"}
RawExpressions == {"undefined", " SUM(x) ", "COUNT(x)"}

\* String(x ?? '').trim()
TrimText(t) ==
    CASE t \in {"undefined", ""}   -> ""
      [] t \in {" Sales ", "Sales"} -> "Sales"
      [] t \in {" sales", "sales"}  -> "sales"
      [] t = "Qty"                 -> "Qty"
      [] t \in {" SUM(x) ", "SUM(x)"} -> "SUM(x)"
      [] t = "COUNT(x)"            -> "COUNT(x)"
      [] OTHER                     -> t

\* name.toLowerCase() of a trimmed name.
LowerName(n) == IF n \in {"Sales", "sales"} THEN "sales" ELSE IF n = "Qty" THEN "qty" ELSE n

RawCardinalities == {"undefined", "One-to-One", "one-to-many", "Many-to-Many", "m2m"}
RawDirections == {"undefined", "Both", "bi", "BothDirections", "Single"}
RawFlags == {"undefined", "true", "false"}

NormaliseCardinality(v) ==
    CASE v = "One-to-One"              -> "One-to-One"
      [] v = "one-to-many"             -> "One-to-Many"
      [] v = "One-to-Many"             -> "One-to-Many"
      [] v = "Many-to-One"             -> "Many-to-One"
      [] v \in {"Many-to-Many", "m2m"} -> "Many-to-Many"
      [] OTHER                         -> "Many-to-One"

NormaliseDirection(v) ==
    IF v \in {"Both", "bi", "BothDirections"} THEN "Both" ELSE "Single"

\* Measures: trimmed fields, nameless records dropped, then de-duplicated
\* by lower-cased name, first wins.
RECURSIVE Dedup(_, _)
Dedup(ms, seen) ==
    IF ms = <<>> THEN <<>>
    ELSE IF LowerName(Head(ms).name) \in seen
         THEN Dedup(Tail(ms), seen)
         ELSE <<Head(ms)>> \o Dedup(Tail(ms), seen \cup {LowerName(Head(ms).name)})

NonEmptyText(t) == t # ""

\* The object the map callback builds for a measure.
NormaliseMeasure(m) ==
    [name |-> TrimText(m.name), expression |-> TrimText(m.expression)]

NamedMeasure(m) == NonEmptyText(m.name)

\* The measures without the de-duplication.
NormaliseMeasuresKeepAll(ms) ==
    SelectSeq([i \in 1..Len(ms) |-> NormaliseMeasure(ms[i])], NamedMeasure)

NormaliseMeasures(ms) ==
    Dedup(SelectSeq([i \in 1..Len(ms) |-> NormaliseMeasure(ms[i])], NamedMeasure), {})

\* One relationship: the object the map callback builds.  It has the keys
\* fromTable, toTable, cardinality, direction and active (and the column
\* texts, treated like the table texts); it has no crossFilterDirection
\* and no IsActive key.
NormaliseRelationship(r) ==
    [fromTable |-> TrimText(r.fromTable),
     toTable |-> TrimText(r.toTable),
     cardinality |-> NormaliseCardinality(r.cardinality),
     crossFilterDirection |-> "undefined",
     direction |-> NormaliseDirection(r.crossFilterDirection),
     active |-> IF r.active \in {"true", "false"} THEN r.active
                ELSE IF r.IsActive \in {"true", "false"} THEN r.IsActive
                ELSE "true",
     IsActive |-> "undefined"]

KeptRelationship(r) == r.fromTable # "" /\ r.toTable # ""

RawRelationships ==
    {[fromTable |-> t, toTable |-> "Date", cardinality |-> c,
      crossFilterDirection |-> d,
      direction |-> "undefined", active |-> a, IsActive |-> ia] :
        t \in {"", " Sales ", "Sales"}, c \in RawCardinalities,
        d \in RawDirections, a \in RawFlags, ia \in {"undefined", "false"}}

RawMeasures == [name : RawTexts, expression : RawExpressions]

\* A raw record set: measures only, or one relationship only.
NormaliseInputs ==
    {[measures |-> ms, relationships |-> <<>>] :
        ms \in UNION {[1..n -> RawMeasures] : n \in 0..MaxNames}}
    \cup {[measures |-> <<>>, relationships |-> <<r>>] : r \in RawRelationships}

NormaliseParsed(raw) ==
    [measures |-> NormaliseMeasures(raw.measures),
     relationships |->
        SelectSeq([i \in 1..Len(raw.relationships) |->
                      NormaliseRelationship(raw.relationships[i])],
                  KeptRelationship)]

ApplyNormalise ==
    /\ fnName = "normalise"
    /\ ~fnOut.applied
    /\ fnOut' = Applied([once |-> NormaliseParsed(fnIn),
                         twice |-> NormaliseParsed(NormaliseParsed(fnIn))])
    /\ UNCHANGED <<runVars, logVars, fnName, fnIn>>

\* ----- CSVParserAgent.parseDirectory: the rows of the tables and
\* relationships files go through InfoViewParser, normaliseParsed, the
\* mapping into the AgentContext with the schema defaults, and the
\* integrity check.

\* The RowCount cell of a tables row; NoRowCount when the file has no such
\* column (and, further on, when an object has no rowCount key).
NoRowCount == -1
RoleThreshold == 10000
RowCounts == {NoRowCount, 0, RoleThreshold, RoleThreshold + 1}

IngestTables == {"Orders", "Customer"}

\* The tables file: the tables it lists, each with its RowCount cell.
TableFiles == UNION {[ts -> RowCounts] : ts \in SUBSET IngestTables}

\* One row of the relationships file, individual-field format.
RelationshipRows ==
    [FromTable : {"Orders"}, ToTable : {"Customer", "CUSTOMER", "Constructor"},
     FromCardinality : {"", "Many", "One"}, ToCardinality : {"", "Many", "One"},
     CrossFilteringBehavior : {"", "1", "2"}, IsActive : {"", "true", "false"}]

\* The columns file: the lower-cased table|column keys it yields.
ColumnFiles == SUBSET {"orders|customerid", "customer|id"}

IngestInputs == [tables : TableFiles, row : RelationshipRows, columns : ColumnFiles]

\* InfoViewParser.parseTables: name, description, dataCategory and
\* isHidden are read; no row count is.
ParseTable(name, rowCount) == [name |-> name, rowCount |-> NoRowCount]

ParseBoolean(v) == IF v = "true" THEN "true" ELSE "false"

BuildCardinalityFromParts(from, to) ==
    CASE from = "" \/ to = ""          -> "Many-to-One"
      [] from = "Many" /\ to = "One"   -> "Many-to-One"
      [] from = "One" /\ to = "Many"   -> "One-to-Many"
      [] from = "One" /\ to = "One"    -> "One-to-One"
      [] from = "Many" /\ to = "Many"  -> "Many-to-Many"

GetCrossFilterDirection(behavior) ==
    IF behavior = "2" THEN "Both" ELSE "Single"

\* InfoViewParser.parseRelationships, a row without a Relationship string:
\* the DAXRelationship carries crossFilterDirection and isActive.
ParseRelationshipRow(row) ==
    [fromTable |-> row.FromTable, toTable |-> row.ToTable,
     cardinality |-> BuildCardinalityFromParts(row.FromCardinality, row.ToCardinality),
     crossFilterDirection |-> GetCrossFilterDirection(row.CrossFilteringBehavior),
     isActive |-> ParseBoolean(row.IsActive),
     direction |-> "undefined", active |-> "undefined", IsActive |-> "undefined"]

\* toNumber(t?.rowCount ?? t?.RowCount ?? 0)
NormaliseTable(t) ==
    [name |-> TrimText(t.name),
     rowCount |-> IF t.rowCount = NoRowCount THEN 0 ELSE t.rowCount]

\* enrichTableSchema on the object the tables mapping builds.
EnrichTableSchema(t) ==
    [name |-> Or(t.name, ""),
     rowCount |-> IF t.rowCount = NoRowCount THEN 0 ELSE t.rowCount,
     role |-> IF (IF t.rowCount = NoRowCount THEN 0 ELSE t.rowCount) > RoleThreshold
              THEN "fact" ELSE "dimension"]

\* The relationships mapping of parseDirectory: the object handed to
\* enrichRelationshipSchema has the endpoint and cardinality keys only.
PickRelationship(r) ==
    [fromTable |-> r.fromTable, toTable |-> r.toTable, cardinality |-> r.cardinality,
     direction |-> "undefined", crossFilterDirection |-> "undefined",
     active |-> "undefined", IsActive |-> "undefined"]

EnrichRelationshipSchema(r) ==
    [fromTable |-> Or(r.fromTable, ""),
     toTable |-> Or(r.toTable, ""),
     cardinality |-> Or(r.cardinality, "Many-to-One"),
     direction |-> Or(r.direction, Or(r.crossFilterDirection, "Single")),
     active |-> IF r.active # "false" /\ r.IsActive # "false" THEN "true" ELSE "false"]

\* (name || '').toLowerCase() on the table names of the files.
LowerTable(n) ==
    CASE n \in {"Orders", "orders"}                -> "orders"
      [] n \in {"Customer", "CUSTOMER", "customer"} -> "customer"
      [] n \in {"Constructor", "constructor"}       -> "constructor"
      [] OTHER                                     -> n

\* buildIdMaps: the keys of tableIdMap, a plain object.
BuildIdMaps(tables) == {LowerTable(tables[i].name) : i \in 1..Len(tables)}

\* Keys every plain object answers with a truthy value through its
\* prototype.
ObjectPrototypeKeys == {"constructor", "__proto__"}

\* Boolean(ids.tableIdMap[(r.toTable || '').toLowerCase()])
TableOk(ids, name) ==
    LowerTable(name) \in ids \/ LowerTable(name) \in ObjectPrototypeKeys

\* Both column keys of the modelled relationship are in columnIdMap.
ColumnsOk(columns) == columns = {"orders|customerid", "customer|id"}

\* assessIntegrity on the context: the issues and warnings pushed for each
\* relationship, by kind, in order.
RelationshipIssues(ids, columns, r) ==
    (IF ~TableOk(ids, r.fromTable) \/ ~TableOk(ids, r.toTable)
     THEN <<"Unknown table">> ELSE <<>>)
    \o (IF ~ColumnsOk(columns) THEN <<"Unknown column">> ELSE <<>>)

RelationshipWarnings(r) ==
    (IF r.cardinality = "Many-to-Many" THEN <<"Many-to-Many">> ELSE <<>>)
    \o (IF r.active = "false" THEN <<"Inactive relationship">> ELSE <<>>)

RECURSIVE AssessIntegrity(_, _, _)
AssessIntegrity(ids, columns, rs) ==
    IF rs = <<>> THEN [issues |-> <<>>, warnings |-> <<>>]
    ELSE LET rest == AssessIntegrity(ids, columns, Tail(rs)) IN
         [issues |-> RelationshipIssues(ids, columns, Head(rs)) \o rest.issues,
          warnings |-> RelationshipWarnings(Head(rs)) \o rest.warnings]

\* The tables of the file in a fixed order.
TableSeq(file) ==
    (IF "Orders" \in DOMAIN file THEN <<ParseTable("Orders", file["Orders"])>> ELSE <<>>)
    \o (IF "Customer" \in DOMAIN file THEN <<ParseTable("Customer", file["Customer"])>> ELSE <<>>)

ParseDirectory(in) ==
    LET parsed == [measures |-> <<>>,
                   tables |-> TableSeq(in.tables),
                   relationships |-> <<ParseRelationshipRow(in.row)>>]
        normalized == NormaliseParsed(parsed)
        tables == [i \in 1..Len(parsed.tables) |->
                      EnrichTableSchema(NormaliseTable(parsed.tables[i]))]
        relationships == [i \in 1..Len(normalized.relationships) |->
                      EnrichRelationshipSchema(PickRelationship(normalized.relationships[i]))]
    IN [threw |-> FALSE,
        parsedData |-> [tables |-> tables, relationships |-> relationships],
        integrity |-> AssessIntegrity(BuildIdMaps(tables), in.columns, relationships)]

ApplyParseDirectory ==
    /\ fnName = "parseDirectory"
    /\ ~fnOut.applied
    /\ fnOut' = Applied(ParseDirectory(fnIn))
    /\ UNCHANGED <<runVars, logVars, fnName, fnIn>>

\* ----- lintDax and heuristicDescribe.  A formula text is a sequence of
\* characters; the regular expressions of the two functions are computed
\* on it position by position.
LowerLetters ==
    {"a", "b", "c", "d", "e", "f", "g", "h", "i", "j", "k", "l", "m", "n", "o", "p",
    "q", "r", "s", "t", "u", "v", "w", "x", "y", "z"}
UpperLetters ==
    {"A", "B", "C", "D", "E", "F", "G", "H", "I", "J", "K", "L", "M", "N", "O", "P",
    "Q", "R", "S", "T", "U", "V", "W", "X", "Y", "Z"}
Digits == {"0", "1", "2"}

\* String.prototype.toUpperCase, character by character.
UpperOf ==
    [a |-> "A", b |-> "B", c |-> "C", d |-> "D", e |-> "E", f |-> "F", g |-> "G", h
    |-> "H", i |-> "I", j |-> "J", k |-> "K", l |-> "L", m |-> "M", n |-> "N", o |->
    "O", p |-> "P", q |-> "Q", r |-> "R", s |-> "S", t |-> "T", u |-> "U", v |->
    "V", w |-> "W", x |-> "X", y |-> "Y", z |-> "Z"]
ToUpperCaseText(f) ==
    [i \in 1..Len(f) |-> IF f[i] \in LowerLetters THEN UpperOf[f[i]] ELSE f[i]]

\* Formula texts: empty, blank, the measure-over-measure ratio, ratios of
\* identifiers, of columns and of aggregations, DIVIDE calls, a division
\* by a number, malformed text, a comment.
FormulaTexts ==
    {<<>>,
     <<" ", " ">>,
     <<"[", "P", "r", "]", "/", "[", "R", "e", "]">>,
     <<"A", "/", "B">>,
     <<"A", "b", " ", "/", " ", "C", "d">>,
     <<"S", "[", "a", "]", "/", "S", "[", "b", "]">>,
     <<"D", "I", "V", "I", "D", "E", "(", "[", "P", "]", ",", "[", "R", "]", ")">>,
     <<"d", "i", "v", "i", "d", "e", "(", "A", "/", "B", ",", "1", ")">>,
     <<"S", "U", "M", "(", "x", ")", "/", "S", "U", "M", "(", "y", ")">>,
     <<"[", "P", "]", "/", "2">>,
     <<" ", "]", ")", "[", "(", "(">>,
     <<"/", "/", "c">>,
     <<"t", "o", "t", "a", "l", " ", "/", " ", "2">>}

\* \w and \b of the regular expressions.
IsWordChar(c) == c \in LowerLetters \cup UpperLetters \cup Digits \cup {"_"}
WordAt(f, i) == i \in 1..Len(f) /\ IsWordChar(f[i])
Boundary(f, i) == WordAt(f, i - 1) # WordAt(f, i)

\* \s* matches the characters from a to b.
Spaces(f, a, b) == \A k \in a..b : f[k] = " "

\* The four alternatives of an operand of rx.divideOperator, matching the
\* characters from i to j.
UpperIdentifier(f, i, j) ==
    /\ f[i] \in UpperLetters \cup {"_"}
    /\ \A k \in (i + 1)..j : f[k] \in UpperLetters \cup Digits \cup {"_"}
LowerIdentifier(f, i, j) ==
    /\ f[i] \in LowerLetters \cup {"_"}
    /\ \A k \in (i + 1)..j : f[k] \in LowerLetters \cup Digits \cup {"_"}
Bracketed(f, i, j) ==
    /\ j > i + 1
    /\ f[i] = "[" /\ f[j] = "]"
    /\ \A k \in (i + 1)..(j - 1) : f[k] # "]"
QualifiedColumn(f, i, j) ==
    \E b \in (i + 1)..(j - 2) :
        /\ \A k \in i..(b - 1) : IsWordChar(f[k])
        /\ Bracketed(f, b, j)
Operand(f, i, j) ==
    \/ UpperIdentifier(f, i, j)
    \/ LowerIdentifier(f, i, j)
    \/ Bracketed(f, i, j)
    \/ QualifiedColumn(f, i, j)

\* rx.divideOperator.test(e): \b operand \s* / \s* operand.
DivideOperator(f) ==
    \E k \in 1..Len(f) :
        /\ f[k] = "/"
        /\ \E j \in 1..(k - 1) :
              /\ Spaces(f, j + 1, k - 1)
              /\ \E i \in 1..j : Boundary(f, i) /\ Operand(f, i, j)
        /\ \E m \in (k + 1)..Len(f) :
              /\ Spaces(f, k + 1, m - 1)
              /\ \E n \in m..Len(f) : Operand(f, m, n)

\* rx.hasDIVIDE.test(e): \bDIVIDE\s*\( without case.
HasDIVIDE(f) ==
    \E i \in 1..Len(f) :
        /\ Boundary(f, i)
        /\ i + 6 <= Len(f)
        /\ SubSeq(ToUpperCaseText(f), i, i + 5) = <<"D", "I", "V", "I", "D", "E">>
        /\ \E p \in (i + 6)..Len(f) : Spaces(f, i + 6, p - 1) /\ f[p] = "("

\* String.prototype.trim.
RECURSIVE Trim(_)
Trim(f) ==
    IF f = <<>> THEN f
    ELSE IF Head(f) = " " THEN Trim(Tail(f))
    ELSE IF f[Len(f)] = " " THEN Trim(SubSeq(f, 1, Len(f) - 1))
    ELSE f

\* A value of a measure record's field as JavaScript sees it: a string
\* with its text, or undefined, or a number.
Text(f) == [type |-> "string", text |-> f]
Undefined == [type |-> "undefined", text |-> <<>>]
Number == [type |-> "number", text |-> <<>>]

\* (v || ''): the text of a string, '' for undefined; a number stays.
OrEmpty(v) == IF v.type = "undefined" THEN Text(<<>>) ELSE v

NoFindings == [threw |-> FALSE, findings |-> <<>>]
TypeError == [threw |-> TRUE, findings |-> <<>>]

\* lintDax; of its six rules the first is computed, the others add their
\* own findings and take none away.
LintDax(expression) ==
    IF OrEmpty(expression).type # "string" THEN TypeError
    ELSE LET e == Trim(OrEmpty(expression).text) IN
         IF e = <<>> THEN NoFindings
         ELSE [threw |-> FALSE,
               findings |-> IF DivideOperator(e) /\ ~HasDIVIDE(e)
                            THEN <<"calc.divide-operator">> ELSE <<>>]

\* /\b\/\b/.test(e)
SlashBetweenWords(f) ==
    \E k \in 1..Len(f) : f[k] = "/" /\ Boundary(f, k) /\ Boundary(f, k + 1)

\* detectRisks; of its six rules the first is computed.
DetectRisks(expr) ==
    LET e == ToUpperCaseText(expr) IN
    IF SlashBetweenWords(e) /\ ~HasDIVIDE(e)
    THEN <<"Division operator used without DIVIDE()">> ELSE <<>>

\* Measure names a stage hands over: a name, an empty text, none, a number.
MeasureNames ==
    {Text(<<"T", "o", "t", "a", "l", "_", "S">>), Text(<<>>), Undefined, Number}
MeasureExpressions == {Text(f) : f \in FormulaTexts} \cup {Undefined, Number}
HeuristicInputs == [name : MeasureNames, expression : MeasureExpressions]

\* heuristicDescribe.  inferKind calls (m.name || '').toLowerCase() and
\* (m.expression || '').toUpperCase(); generatePurpose calls
\* normalizeTitle(m.name), which calls name.replace.
HeuristicThrows(m) ==
    \/ OrEmpty(m.name).type # "string"
    \/ OrEmpty(m.expression).type # "string"
    \/ m.name.type # "string"

HeuristicDescribe(m) ==
    IF HeuristicThrows(m) THEN [threw |-> TRUE, risks |-> <<>>]
    ELSE [threw |-> FALSE, risks |-> DetectRisks(OrEmpty(m.expression).text)]

\* The measure analysis of a record: its heuristic description and its
\* lint findings.
ApplyDescribe ==
    /\ fnName = "describe"
    /\ ~fnOut.applied
    /\ fnOut' = Applied([heuristic |-> HeuristicDescribe(fnIn),
                         lint |-> LintDax(fnIn.expression)])
    /\ UNCHANGED <<runVars, logVars, fnName, fnIn>>

\* ----- The tolerant parsing of a stage response.  A response text is a
\* sequence of pieces: a code-fence marker, prose without braces, the text
\* of a JSON object (two different ones), the text of a JSON array.
Pieces == {"fence", "prose", "objA", "objB", "array"}
ResponseTexts == UNION {[1..n -> Pieces] : n \in 1..MaxTokens}
ParsingStages == {"domain", "glossary", "arch", "synth"}
ParseInputs == [s : ParsingStages, text : ResponseTexts]

NoValue == [ok |-> FALSE, value |-> "none"]

\* JSON.parse: the text must be one JSON value and nothing else.
JsonParse(t) ==
    IF Len(t) = 1 /\ t[1] \in {"objA", "objB", "array"}
    THEN [ok |-> TRUE, value |-> t[1]] ELSE NoValue

\* v && typeof v === 'object' && !Array.isArray(v)
IsPlainObject(p) == p.ok /\ p.value \in {"objA", "objB"}

\* s.replace(/^\s*```(?:json)?\s*/i, '').replace(/\s*```\s*$/, '')
StripFences(t) ==
    LET a == IF t # <<>> /\ Head(t) = "fence" THEN Tail(t) ELSE t IN
    IF a # <<>> /\ a[Len(a)] = "fence" THEN SubSeq(a, 1, Len(a) - 1) ELSE a

\* noFences.match(/\{[\s\S]*\}$/): from the first '{' of the text to its
\* end, when the text ends with '}'.
MatchBraces(t) ==
    LET opens == {i \in 1..Len(t) : t[i] \in {"objA", "objB"}} IN
    IF opens # {} /\ t[Len(t)] \in {"objA", "objB"}
    THEN SubSeq(t, CHOOSE i \in opens : \A j \in opens : i <= j, Len(t))
    ELSE <<>>

\* ensureJsonString of the classifier, glossary and architecture stages;
\* step is the attempt that gave the payload, 0 for the default payload.
EnsureJsonString(t) ==
    IF IsPlainObject(JsonParse(t)) THEN [step |-> 1, value |-> JsonParse(t).value]
    ELSE IF IsPlainObject(JsonParse(StripFences(t)))
         THEN [step |-> 2, value |-> JsonParse(StripFences(t)).value]
    ELSE IF JsonParse(MatchBraces(StripFences(t))).ok
         THEN [step |-> 3, value |-> JsonParse(MatchBraces(StripFences(t))).value]
    ELSE [step |-> 0, value |-> "default"]

\* synthesizeResults: JSON.parse(raw), else { measures: [] }.
ParseSynthesisText(t) ==
    IF JsonParse(t).ok THEN [step |-> 1, value |-> JsonParse(t).value]
    ELSE [step |-> 0, value |-> "default"]

ParseResponse(s, t) ==
    IF s = "synth" THEN ParseSynthesisText(t) ELSE EnsureJsonString(t)

ApplyParseResponse ==
    /\ fnName = "parseResponse"
    /\ ~fnOut.applied
    /\ fnOut' = Applied(ParseResponse(fnIn.s, fnIn.text))
    /\ UNCHANGED <<runVars, logVars, fnName, fnIn>>

\* ----- The domain of a classified run: the classifier's gating, the
\* context extraction and the orchestrator's injection.
ReportedDomains ==
    {"undefined", "", "Business Intelligence", "business intelligence",
     "Unknown", "Analytics", "Retail Analytics"}
CallerDomains == {"undefined", "Logistics"}
ClassifyInputs == [reported : ReportedDomains, caller : CallerDomains]

\* /^(business intelligence|unknown|analytics)$/i.test(parsed.domain)
IsGenericLabel(d) ==
    d \in {"Business Intelligence", "business intelligence", "Unknown", "Analytics"}

\* analyze, lines 52-53: finalDomain.
FinalDomain(d) ==
    IF Truthy(d) /\ ~IsGenericLabel(d) THEN d ELSE "Analytics Model"

\* The result of analyze for a parsed response: the analysis is the JSON as
\* parsed, the gated domain goes to the metadata.
ClassifierResult(d) ==
    [analysis |-> [domain |-> d], metadata |-> [domain |-> FinalDomain(d)]]

\* extractDomainContext: the analysis parses, so its domain is taken.
ExtractDomainContext(dr) ==
    [domain |-> Or(dr.analysis.domain, "Business Intelligence")]

\* The classification step of the orchestrator and the stats of STEP 4:
\* the domain of enrichedContext (handed to every later stage) and the
\* domain of the fixed stats.
ClassifyDomain(in) ==
    LET domainResult == ClassifierResult(in.reported)
        enriched == ExtractDomainContext(domainResult).domain
    IN [metadata |-> domainResult.metadata.domain,
        enrichedContext |-> enriched,
        stats |-> Nullish(enriched, Nullish(in.caller, "Business Intelligence"))]

ApplyClassifyDomain ==
    /\ fnName = "classify"
    /\ ~fnOut.applied
    /\ fnOut' = Applied(ClassifyDomain(fnIn))
    /\ UNCHANGED <<runVars, logVars, fnName, fnIn>>

\* ----- withRetry on its own: the wrapped function's outcome at each call
\* is given, one more than the attempt count; an outcome is a value or an
\* error with its status code.
Returns == [ok |-> TRUE, code |-> NoError]
Throws(code) == [ok |-> FALSE, code |-> code]
AttemptOutcomes == {Returns} \cup {Throws(c) : c \in {PlainErrorCode, 429, 500}}
RetryInputs == [1..(Tries + 1) -> AttemptOutcomes]

\* Variant: the loop runs while i <= tries.
LoopContinuesOnePast(i) == i <= Tries

\* The loop condition, i < tries.
LoopContinues(i) == i < Tries

\* The loop of withRetry from attempt i on, lastErr being the error caught
\* last; n counts the calls of fn, at is the call whose value is returned.
RECURSIVE RetryLoop(_, _, _)
RetryLoop(outs, i, lastErr) ==
    IF ~LoopContinues(i)
    THEN [returned |-> FALSE, n |-> i, at |-> 0, thrown |-> lastErr]
    ELSE IF outs[i + 1].ok
         THEN [returned |-> TRUE, n |-> i + 1, at |-> i + 1, thrown |-> NoError]
         ELSE IF RetryDecision(outs[i + 1].code, i)
              THEN RetryLoop(outs, i + 1, outs[i + 1].code)
              ELSE [returned |-> FALSE, n |-> i + 1, at |-> 0,
                    thrown |-> outs[i + 1].code]

WithRetry(outs) == RetryLoop(outs, 0, NoError)

ApplyWithRetry ==
    /\ fnName = "withRetry"
    /\ ~fnOut.applied
    /\ fnOut' = Applied(WithRetry(fnIn))
    /\ UNCHANGED <<runVars, logVars, fnName, fnIn>>

PureInit ==
    /\ RunInit
    /\ LoggerConstructed
    /\ measures = 0
    /\ maxMeasures = DefaultMaxMeasures
    /\ fnOut = NotApplied
    /\ \/ fnName = "stageResult" /\ fnIn \in StageResultInputs
       \/ fnName = "coerce" /\ fnIn \in RawSynthesisOutputs
       \/ fnName = "columnCount" /\ fnIn \in ColumnCountInputs
       \/ fnName = "polishValues" /\ fnIn \in PolishValueInputs
       \/ /\ fnName = "enrich"
          /\ fnIn \in {in \in EnrichmentInputs : in.heur \in HeuristicValues(in.field)}
       \/ fnName = "normalise" /\ fnIn \in NormaliseInputs
       \/ fnName = "parseDirectory" /\ fnIn \in IngestInputs
       \/ fnName = "describe" /\ fnIn \in HeuristicInputs
       \/ fnName = "parseResponse" /\ fnIn \in ParseInputs
       \/ fnName = "classify" /\ fnIn \in ClassifyInputs
       \/ fnName = "withRetry" /\ fnIn \in RetryInputs

PureNext ==
    \/ ApplyStageResult
    \/ ApplyCoercion
    \/ ApplyColumnCount
    \/ ApplyPolishValues
    \/ ApplyEnrichment
    \/ ApplyNormalise
    \/ ApplyParseDirectory
    \/ ApplyDescribe
    \/ ApplyParseResponse
    \/ ApplyClassifyDomain
    \/ ApplyWithRetry

PureSpec == PureInit /\ [][PureNext]_vars

\* C13: every stage result's confidence is a number in [0,1] that does not
\* exceed the stage's ceiling (at most 0.98), whatever confidence the
\* response claims (greater than 1, negative, or not numeric).
C13_ConfidenceClamped ==
    (fnName = "stageResult" /\ fnOut.applied) =>
        /\ fnOut.value.conf # NaN
        /\ fnOut.value.conf >= 0
        /\ fnOut.value.conf <= ConfidenceCeiling(fnIn.s)
        /\ fnOut.value.conf <= PolishCeiling

\* The weight the stage of a result has in the overall confidence.
StageWeight(s) == IF s \in {"synth", "polish", "dax"} THEN 2 ELSE 1

SmallestConfidence == CHOOSE c \in {result[s].conf : s \in Stages} :
                          \A s \in Stages : c <= result[s].conf
LargestConfidence == CHOOSE c \in {result[s].conf : s \in Stages} :
                         \A s \in Stages : c >= result[s].conf

C15_ContextsAndResultsImmutable ==
    /\ [](/\ enrichedContext.made =>
               /\ enrichedContext.measures = measures
               /\ enrichedContext.maxMeasures = maxMeasures
          /\ polishContext.made =>
               /\ polishContext.measures = measures
               /\ polishContext.domain = enrichedContext.domain
               /\ polishContext.rawReport = result["synth"].measures)
    /\ [][/\ CallerContext' = CallerContext
          /\ enrichedContext.made => enrichedContext' = enrichedContext
          /\ polishContext.made => polishContext' = polishContext
          /\ \A s \in Stages :
                result[s] # NoResult => result'[s] = result[s]]_vars

\* C15 witness: a completed run whose classifier supplied a domain the
\* caller's context does not carry, and whose glossary was retried.
C15_Witness ==
    /\ pc = "done"
    /\ polishContext.made
    /\ enrichedContext.domain = "Retail Analytics"
    /\ callerDomain = NoDomain
    /\ task["glossary"].n > 1

\* C16: for any raw synthesis output (unparseable text, JSON null or a
\* primitive, an object with missing or wrongly typed fields) the coercion
\* step returns without throwing an object whose overview is an object and
\* whose measures, tables, relationships and lintFindings are arrays.
C16_CoercionTotal ==
    (fnName = "coerce" /\ fnOut.applied) =>
        /\ ~fnOut.value.threw
        /\ fnOut.value.overview = "object"
        /\ fnOut.value.measures = "array"
        /\ fnOut.value.tables = "array"
        /\ fnOut.value.relationships = "array"
        /\ fnOut.value.lintFindings = "array"

\* The parsed columns whose tableName matches the name, whatever the case.
MatchingColumns(cs, name) ==
    Cardinality({i \in 1..Len(cs) : ToLowerCase(cs[i]) = ToLowerCase(name)})

\* C17: for every table of the report the stated column count equals the
\* number of parsed columns whose tableName matches the table's name
\* case-insensitively (0 when there are none), never a different value
\* supplied by a generation stage.
C17_ColumnCountAuthority ==
    (fnName = "columnCount" /\ fnOut.applied) =>
        fnOut.value = MatchingColumns(fnIn.columns, fnIn.name)

\* The authoritative values of a run: the classified domain and the
\* numbers of parsed tables, measures and relationships.
Authoritative(in) ==
    [domain |-> in.domain, tables |-> in.tables, measures |-> in.measures,
     relationships |-> in.relationships]

\* C18: the domain and the table, measure and relationship counts handed
\* to the polish stage are the authoritative values of the run; the polish
\* request carries exactly those values and the final report's overview
\* states exactly those counts, whatever the synthesis stage produced.
C18_FixedValuesVerbatim ==
    (fnName = "polishValues" /\ fnOut.applied) =>
        /\ fnOut.value.stats = Authoritative(fnIn)
        /\ fnOut.value.prompt = Authoritative(fnIn)
        /\ fnOut.value.overview = Authoritative(fnIn)

\* The values a generation stage may state for a field, by the field's
\* type: texts for purpose and whenToUse, a list for risks, a list or a
\* text for successIndicators (the glossary merge of the synthesis stage
\* writes it as a text).
PresentNonEmpty(f, v) ==
    CASE f \in {"purpose", "whenToUse"} -> v = "genText"
      [] f = "successIndicators"        -> v \in {"genText", "genList"}
      [] f = "risks"                    -> v = "genList"

AbsentOrEmpty(f, v) ==
    CASE f \in {"purpose", "whenToUse"} -> v \in {"undefined", ""}
      [] f = "successIndicators"        -> v \in {"undefined", "", "emptyList"}
      [] f = "risks"                    -> v \in {"undefined", "emptyList"}

\* C19: for each measure and each enriched field independently (purpose,
\* whenToUse, successIndicators, risks) the report's value is the
\* generation stage's value when that is present and non-empty, else the
\* heuristic describer's value (stated here for measures without a
\* glossary entry), else empty; a non-empty generation-stage value is
\* never replaced by a heuristic value.
C19_EnrichmentPriority ==
    (fnName = "enrich" /\ fnOut.applied) =>
        /\ PresentNonEmpty(fnIn.field, fnIn.gen) => fnOut.value = fnIn.gen
        /\ (AbsentOrEmpty(fnIn.field, fnIn.gen) /\ ~fnIn.entry
              /\ fnIn.meaning = "undefined") =>
                fnOut.value = fnIn.heur

\* C20: normalising an already normalised record set returns an identical
\* record set, field for field, including each relationship's
\* cardinality, direction and active flag.
C20_NormaliserIdempotent ==
    (fnName = "normalise" /\ fnOut.applied) => fnOut.value.twice = fnOut.value.once

\* The positions of the input measures that carry a name no earlier
\* measure carries, names compared after trimming and without case.
FirstOccurrences(ms) ==
    {i \in 1..Len(ms) :
        /\ TrimText(ms[i].name) # ""
        /\ \A j \in 1..(i - 1) :
              LowerName(TrimText(ms[j].name)) # LowerName(TrimText(ms[i].name))}

\* C21: the normalised measures hold at most one record per
\* case-insensitive name; the record kept for a name is its first
\* occurrence in the input, and the kept records are in input order.
C21_DedupFirstWins ==
    (fnName = "normalise" /\ fnOut.applied) =>
        LET out == fnOut.value.once.measures
            first == FirstOccurrences(fnIn.measures)
        IN /\ \A i, j \in 1..Len(out) :
                 LowerName(out[i].name) = LowerName(out[j].name) => i = j
           /\ Len(out) = Cardinality(first)
           /\ \E f \in [1..Len(out) -> first] :
                 /\ \A i, j \in 1..Len(out) : i < j => f[i] < f[j]
                 /\ \A i \in 1..Len(out) :
                       out[i] = NormaliseMeasure(fnIn.measures[f[i]])

\* C21 witness: three measures, the first and the third with the same name
\* in different case and different formulas, normalised to two records.
C21_Witness ==
    /\ fnName = "normalise" /\ fnOut.applied
    /\ Len(fnIn.measures) = 3
    /\ fnIn.measures[1].name = " Sales " /\ fnIn.measures[3].name = " sales"
    /\ fnIn.measures[2].name = "Qty"
    /\ fnIn.measures[1].expression # fnIn.measures[3].expression
    /\ Len(fnOut.value.once.measures) = 2

\* The relationship of the row names a table the tables file does not
\* list, names compared without case.
ReferencesAbsentTable(in) ==
    \E n \in {in.row.FromTable, in.row.ToTable} :
        \A t \in DOMAIN in.tables : LowerTable(t) # LowerTable(n)

\* How many entries of a list are of the kind.
CountOf(list, kind) == Cardinality({i \in 1..Len(list) : list[i] = kind})

\* C22: for a relationship that references a table absent from the table
\* set, the integrity check records exactly one "unknown table" issue and
\* does not throw, and the relationship is in the context's relationship
\* list with its original values (endpoints, cardinality, filter direction
\* and active flag).
C22_UnknownTableReported ==
    (fnName = "parseDirectory" /\ fnOut.applied /\ ReferencesAbsentTable(fnIn)) =>
        /\ ~fnOut.value.threw
        /\ CountOf(fnOut.value.integrity.issues, "Unknown table") = 1
        /\ Len(fnOut.value.parsedData.relationships) = 1
        /\ LET r == fnOut.value.parsedData.relationships[1] IN
             /\ r.fromTable = fnIn.row.FromTable
             /\ r.toTable = fnIn.row.ToTable
             /\ r.cardinality =
                  BuildCardinalityFromParts(fnIn.row.FromCardinality, fnIn.row.ToCardinality)
             /\ r.direction = GetCrossFilterDirection(fnIn.row.CrossFilteringBehavior)
             /\ fnIn.row.IsActive # "" => r.active = fnIn.row.IsActive

\* C23: every Many-to-Many relationship and every inactive relationship of
\* the parsed input produces a warning in the integrity result.
C23_ManyToManyAndInactiveWarned ==
    (fnName = "parseDirectory" /\ fnOut.applied) =>
        /\ (fnIn.row.FromCardinality = "Many" /\ fnIn.row.ToCardinality = "Many") =>
              CountOf(fnOut.value.integrity.warnings, "Many-to-Many") = 1
        /\ fnIn.row.IsActive = "false" =>
              CountOf(fnOut.value.integrity.warnings, "Inactive relationship") = 1

\* C27: a table whose input row count is greater than 10,000 has role fact
\* in the context built from the input files, and every other table has
\* role dimension.
C27_RoleFromRowCount ==
    (fnName = "parseDirectory" /\ fnOut.applied) =>
        \A i \in 1..Len(fnOut.value.parsedData.tables) :
            LET t == fnOut.value.parsedData.tables[i] IN
            t.role = IF fnIn.tables[t.name] > RoleThreshold THEN "fact" ELSE "dimension"

\* C24: heuristicDescribe and lintDax return a well-formed result and
\* never throw, for any formula text (empty, blank, malformed) and for any
\* measure record a pipeline stage hands them (the synthesis stage hands
\* over the generated measure's name as it came, a text or not).
C24_DescribeAndLintNeverThrow ==
    (fnName = "describe" /\ fnOut.applied) =>
        /\ ~fnOut.value.heuristic.threw
        /\ ~fnOut.value.lint.threw

\* The formula has a '/' with an operand on each side: a name, a number, a
\* bracketed reference or a parenthesised expression, blanks aside.
DividesTwoOperands(f) ==
    \E k \in 1..Len(f) :
        /\ f[k] = "/"
        /\ \E j \in 1..(k - 1) :
              Spaces(f, j + 1, k - 1) /\ (IsWordChar(f[j]) \/ f[j] \in {"]", ")"})
        /\ \E m \in (k + 1)..Len(f) :
              Spaces(f, k + 1, m - 1) /\ (IsWordChar(f[m]) \/ f[m] \in {"[", "("})

\* C26: a formula that divides two operands with the raw '/' operator and
\* contains no DIVIDE call, such as [Profit]/[Revenue], yields a
\* division-risk finding (from the linter or from the heuristic risks).
C26_RawDivisionFlagged ==
    (/\ fnName = "describe" /\ fnOut.applied
     /\ fnIn.name.type = "string" /\ fnIn.expression.type = "string"
     /\ DividesTwoOperands(fnIn.expression.text)
     /\ ~HasDIVIDE(fnIn.expression.text)) =>
        \/ fnOut.value.lint.findings # <<>>
        \/ fnOut.value.heuristic.risks # <<>>

\* The parse of the last top-level bracketed structure of a response: its
\* last object or array text.
LastBracketed(t) ==
    LET bs == {i \in 1..Len(t) : t[i] \in {"objA", "objB", "array"}} IN
    IF bs = {} THEN NoValue
    ELSE [ok |-> TRUE, value |-> t[CHOOSE i \in bs : \A j \in bs : i >= j]]

\* The payload the three steps give when tried in order.
FirstObject(t) ==
    IF IsPlainObject(JsonParse(t)) THEN [step |-> 1, value |-> t[1]]
    ELSE IF IsPlainObject(JsonParse(StripFences(t)))
         THEN [step |-> 2, value |-> StripFences(t)[1]]
    ELSE IF IsPlainObject(LastBracketed(t))
         THEN [step |-> 3, value |-> LastBracketed(t).value]
    ELSE [step |-> 0, value |-> "default"]

\* C25: a stage response is parsed by trying in order a strict parse, a
\* parse after stripping the code-fence markers, and a parse of the last
\* top-level bracketed structure of the text; the payload is the result of
\* the first step that yields an object, and the stage's default payload
\* is used only when all three steps fail.
C25_TolerantParseOrder ==
    (fnName = "parseResponse" /\ fnOut.applied) =>
        fnOut.value = FirstObject(fnIn.text)

\* C28: when the classifier's reported domain is missing or is one of the
\* generic labels (business intelligence, unknown, analytics), the domain
\* injected into the context of the later stages, and reported by the run,
\* is "Analytics Model".
C28_GenericDomainReplaced ==
    (/\ fnName = "classify" /\ fnOut.applied
     /\ ~Truthy(fnIn.reported) \/ IsGenericLabel(fnIn.reported)) =>
        /\ fnOut.value.enrichedContext = "Analytics Model"
        /\ fnOut.value.stats = "Analytics Model"

\* C29: whatever the wrapped stage's failures, withRetry calls it at most
\* 3 times; it returns the value of the first call that succeeds, with no
\* call after it; otherwise it ends by throwing the error of the last call
\* it made.
C29_RetryBounded ==
    (fnName = "withRetry" /\ fnOut.applied) =>
        LET o == fnOut.value IN
        /\ o.n \in 1..3
        /\ o.returned =>
              /\ o.at = o.n
              /\ fnIn[o.at].ok
              /\ \A k \in 1..(o.at - 1) : ~fnIn[k].ok
        /\ ~o.returned =>
              /\ \A k \in 1..o.n : ~fnIn[k].ok
              /\ o.thrown = fnIn[o.n].code

\* C29 witness: three failing calls with different errors, the last one
\* transient; the error of the third call is thrown, and the fourth call,
\* which would succeed, is never made.
C29_Witness ==
    /\ fnName = "withRetry" /\ fnOut.applied
    /\ fnIn[1] = Throws(429) /\ fnIn[2] = Throws(PlainErrorCode)
    /\ fnIn[3] = Throws(500) /\ fnIn[4] = Returns
    /\ ~fnOut.value.returned
    /\ fnOut.value.n = 3
    /\ fnOut.value.thrown = 500

\* --------------------------------------------------------------- Logger
\* The file logger by itself: log calls of a caller, the file writes of
\* processLogQueue and one flush() call, interleaved by the event loop.
MaxLogs == 3

\* enum LogLevel, and the level of a logger built without LOG_LEVEL.
LogLevelINFO == 2
LogLevelDEBUG == 3
LogLevels == {LogLevelINFO, LogLevelDEBUG}
ConfigLevel == LogLevelINFO

ShouldLog(level) == level <= ConfigLevel

fnVars == <<fnName, fnIn, fnOut>>

\* flush()'s loop condition.
FlushMustWait(queue, writing) == Len(queue) > 0 \/ writing

\* processLogQueue's guard: it gives up while a batch is being written or
\* when nothing is queued.
ProcessReturnsAtOnce(queue) == isWriting \/ Len(queue) = 0

\* log(level, ...): an entry that passes shouldLog is pushed on the queue
\* and processLogQueue is called without being awaited.  processLogQueue
\* runs up to its first await: it either returns at once, or takes the
\* whole queue as its batch and starts writing the batch's first entry.
Log(level) ==
    /\ fnName = "logger"
    /\ ~callerDone
    /\ logCalls < MaxLogs
    /\ logCalls' = logCalls + 1
    /\ IF ShouldLog(level)
       THEN LET entry == logCalls + 1
                pushed == Append(logQueue, entry) IN
            /\ accepted' = accepted \cup {entry}
            /\ IF ProcessReturnsAtOnce(pushed)
               THEN /\ logQueue' = pushed
                    /\ UNCHANGED <<isWriting, entries>>
               ELSE /\ isWriting' = TRUE
                    /\ entries' = pushed
                    /\ logQueue' = <<>>
       ELSE UNCHANGED <<accepted, logQueue, isWriting, entries>>
    /\ UNCHANGED <<logFile, flushState, writeFailed, callerDone, runVars,
                   fnVars>>

\* await this.writeToFile(entry) settles: the line was appended, or the
\* append was rejected and writeToFile only reported it.  The loop goes on
\* to the next entry of its batch; after the last one the finally block
\* clears isWriting, and processLogQueue returns.
WriteSettles(ok) ==
    /\ fnName = "logger"
    /\ isWriting
    /\ Len(entries) > 0
    /\ logFile' = IF ok THEN Append(logFile, Head(entries)) ELSE logFile
    /\ writeFailed' = (writeFailed \/ ~ok)
    /\ entries' = Tail(entries)
    /\ isWriting' = (Len(entries) > 1)
    /\ UNCHANGED <<logQueue, flushState, logCalls, accepted, callerDone,
                   runVars, fnVars>>

\* flush() is called: it returns at once, or starts to poll.
FlushCalled ==
    /\ fnName = "logger"
    /\ flushState = "idle"
    /\ flushState' = IF FlushMustWait(logQueue, isWriting)
                     THEN "waiting" ELSE "returned"
    /\ UNCHANGED <<logQueue, isWriting, entries, logFile, logCalls, accepted,
                   writeFailed, callerDone, runVars, fnVars>>

\* flush()'s 10 ms timer fires and the loop condition is read again.
FlushPolls ==
    /\ fnName = "logger"
    /\ flushState = "waiting"
    /\ flushState' = IF FlushMustWait(logQueue, isWriting)
                     THEN "waiting" ELSE "returned"
    /\ UNCHANGED <<logQueue, isWriting, entries, logFile, logCalls, accepted,
                   writeFailed, callerDone, runVars, fnVars>>

\* The caller has made its last log call.
CallerStops ==
    /\ fnName = "logger"
    /\ ~callerDone
    /\ callerDone' = TRUE
    /\ UNCHANGED <<logQueue, isWriting, entries, logFile, flushState,
                   logCalls, accepted, writeFailed, runVars, fnVars>>

LoggerInit ==
    /\ RunInit
    /\ measures = 0
    /\ maxMeasures = DefaultMaxMeasures
    /\ fnName = "logger"
    /\ fnIn = NotApplied
    /\ fnOut = NotApplied
    /\ LoggerConstructed

LoggerNext ==
    \/ \E level \in LogLevels : Log(level)
    \/ \E ok \in BOOLEAN : WriteSettles(ok)
    \/ FlushCalled
    \/ FlushPolls
    \/ CallerStops

LoggerSpec == LoggerInit /\ [][LoggerNext]_vars

\* The event loop: a file operation that was started settles, and a timer
\* that was set fires.  Nothing obliges the caller to log, to flush or to
\* stop.
LoggerFairSpec ==
    /\ LoggerSpec
    /\ WF_vars(\E ok \in BOOLEAN : WriteSettles(ok))
    /\ WF_vars(FlushPolls)

\* The lines of the log file appear in the order their entries were logged.
InLoggedOrder ==
    \A i, j \in 1..Len(logFile) : i < j => logFile[i] < logFile[j]

Written(entry) == \E i \in 1..Len(logFile) : logFile[i] = entry

\* C30: under any interleaving of log calls with file writes in progress,
\* and unless the file system rejects a write, every entry accepted into
\* the queue is eventually written to the log file, the file keeps the
\* order in which the entries were logged, and a flush() that waits while
\* the caller logs no more eventually returns.
C30_QueuedEntriesWrittenAndFlushReturns ==
    \/ <>writeFailed
    \/ /\ []InLoggedOrder
       /\ \A entry \in 1..MaxLogs : (entry \in accepted) ~> Written(entry)
       /\ (flushState = "waiting" /\ callerDone) ~> (flushState = "returned")

====
